---------------------------- MODULE Spec2Model ----------------------------
(***************************************************************************)
(* A model of the veloframe viewer: the photo sequence and portrait        *)
(* pairing policy (PhotoFileSet), the controller (PhotoFrame.show_photo),  *)
(* the bounded preparation cache (PhotoPreparationManager) and the         *)
(* cross-dissolve transition engine (TransitionManager / PhotoDisplay).    *)
(***************************************************************************)
EXTENDS Integers, Sequences, FiniteSets, TLC

(***************************************************************************)
(* Bounds of the model.                                                    *)
(***************************************************************************)
\* number of distinct photo paths that can exist under the photos directory
NumPaths == 3
\* number of background scan threads that are ever started (constructor + rescans)
MaxScans == 2

\* program constants
DefaultLookahead == 10
BatchSize == 20

Paths == 1..NumPaths
NoPath == 0

\* lookahead values passed to find_portrait_pair
Lookaheads == {0, 1, DefaultLookahead}

ScanIds == 1..MaxScans

\* the orientations of the files on disk that are explored: path 1 is a
\* landscape photo and the others are portrait, or every photo is portrait
DiskFixtures == {Paths \ {1}}

VARIABLES
    \* ---- PhotoFileSet ----
    photo_files,             \* self.photo_files: list of paths
    current_index,           \* self.current_index
    portrait_photos,         \* self.portrait_photos: set of paths
    portrait_cache,          \* self.portrait_cache: path -> "yes" | "no" | "absent"
    portrait_scan_complete,  \* self.portrait_scan_complete
    portrait_scan_lock,      \* holder of self.portrait_scan_lock: 0 = free, else a scan id
    scan,                    \* per background scan thread: its position in _background_portrait_scan
    call,                    \* the main flow's position inside find_portrait_pair / is_portrait_photo
    fpp_result,              \* what the last find_portrait_pair call returned
    \* ---- the files on disk ----
    portrait_on_disk,        \* the paths whose image has height > width
    \* ---- observation of the main flow ----
    last_op                  \* name of the last completed main-flow operation

VARIABLES
    \* ---- PhotoPreparationManager ----
    pixmap_cache,            \* self._pixmap_cache: entries in dict (insertion) order
    req_pos,                 \* position of the photo the slideshow is showing
    tracked,                 \* per cache key: requests and decodes since its last eviction / clear
    last_prep,               \* outcome of the last prepare_* / clear_cache call
    back_steps,              \* number of backward (previous photo) requests so far
    blurred,                 \* the last create_blurred_background call and its result
    pair_geometry            \* the sizes and positions the last prepare_photo_pair computed

prepVars == <<pixmap_cache, req_pos, tracked, last_prep, back_steps, blurred,
              pair_geometry>>

VARIABLES
    \* ---- TransitionManager ----
    tm_in_transition,        \* TransitionManager.in_transition
    tm_photo_details,        \* [current, next]: the details stored by start_transition (0 = None)
    on_transition_finished_callback,  \* "none" or the name of the stored callback
    fade_animation_group,    \* the session of the group held (0 = a group that was never started)
    group_state,             \* per session: "unused" | "running" | "stopped" | "finished"
    group_time,              \* per session: current time of the running animation, in FrameSlots
    \* ---- PhotoDisplay ----
    display_in_transition,   \* PhotoDisplay.in_transition
    current_photo_details,   \* PhotoDisplay.current_photo_details (0 = None)
    next_photo_details,      \* PhotoDisplay.next_photo_details (0 = None)
    cleanup_counter,         \* PhotoDisplay._cleanup_counter
    cleaned,                 \* the details whose bitmap references were set to None
    overlay,                 \* the details whose metadata the overlay shows (0 = hidden)
    opacity,                 \* [current, next]: opacity of the two left layers, over Opaque
    pixmaps,                 \* [current, next]: the details whose bitmap each layer shows (0 = empty)
    \* ---- observation ----
    ops,                     \* number of display operations so far; names details and sessions
    callbacks,               \* per session: invocations of the completion callback
    mid_swaps,               \* per session: overlay swaps done by the mid-transition callback
    last_start               \* what the start_transition call that just returned did

transVars == <<tm_in_transition, tm_photo_details, on_transition_finished_callback,
               fade_animation_group, group_state, group_time, display_in_transition,
               current_photo_details, next_photo_details, cleanup_counter, cleaned,
               overlay, opacity, pixmaps, ops, callbacks, mid_swaps, last_start>>

VARIABLES
    \* ---- PhotoFrame ----
    frame_handler,           \* the handler the main flow is in: "none", "init", ...
    frame_pc,                \* its position inside show_photo
    skip_transition,         \* the argument of the running show_photo
    error_count,             \* PhotoFrame._error_count
    timer_active,            \* PhotoFrame.timer is running
    empty_state,             \* the "no photos found" widget is shown
    shown_log,               \* what each returned show_photo displayed
    \* ---- the files on disk ----
    missing_on_disk,         \* listed paths that no longer exist
    unreadable_on_disk       \* existing files that cannot be decoded

frameVars == <<frame_handler, frame_pc, skip_transition, error_count, timer_active,
               empty_state, shown_log, missing_on_disk, unreadable_on_disk>>

\* everything that is not state of the sequence manager
nonSeqVars == <<prepVars, transVars, frameVars>>

seqVars == <<photo_files, current_index, portrait_photos, portrait_cache,
             portrait_scan_complete, portrait_scan_lock, scan, call, fpp_result,
             portrait_on_disk, last_op>>

vars == <<seqVars, prepVars, transVars, frameVars>>

(***************************************************************************)
(* Helpers                                                                 *)
(***************************************************************************)
Min(a, b) == IF a <= b THEN a ELSE b

Range(s) == {s[k] : k \in 1..Len(s)}

\* all lists of distinct paths (what os.walk yields, in any order)
FileLists == {s \in UNION {[1..n -> Paths] : n \in 0..NumPaths} :
                 \A a, b \in 1..Len(s) : a # b => s[a] # s[b]}

\* Python lists are 0-based: photo_files[i]
At(files, i) == files[i + 1]

\* list.index(x): 0-based position of the first occurrence, -1 for ValueError
IndexOf(files, x) ==
    IF x \in Range(files)
    THEN (CHOOSE k \in 1..Len(files) : files[k] = x /\ \A j \in 1..(k-1) : files[j] # x) - 1
    ELSE -1

\* files[a:b] with 0 <= a
Slice(files, a, b) == SubSeq(files, a + 1, Min(b, Len(files)))


(***************************************************************************)
(* photo_processing.is_portrait: height > width of the file on disk        *)
(***************************************************************************)
\* Image.open raises for a file that is gone or cannot be decoded; the
\* except branch returns False
is_portrait(p) ==
    IF p \in missing_on_disk \cup unreadable_on_disk THEN FALSE
    ELSE p \in portrait_on_disk

BoolStr(b) == IF b THEN "yes" ELSE "no"

(***************************************************************************)
(* PhotoFileSet: navigation                                                *)
(***************************************************************************)
\* get_current_photo_path: None (NoPath) on an empty list
get_current_photo_path(files, idx) ==
    IF Len(files) = 0 THEN NoPath ELSE At(files, idx)

\* next_photo / previous_photo: the new index (Python % is non-negative)
next_index(files, idx) ==
    IF Len(files) = 0 THEN idx ELSE (idx + 1) % Len(files)

\* a previous_photo that stops at the first photo instead of wrapping
previous_index_clamped(files, idx) ==
    IF Len(files) = 0 THEN idx ELSE IF idx = 0 THEN 0 ELSE idx - 1

previous_index(files, idx) ==
    IF Len(files) = 0 THEN idx ELSE (idx - 1) % Len(files)

\* what the is_portrait_photo call that has just returned answered (none:
\* no call has just returned)
NoAnswer == [path |-> NoPath, portrait |-> FALSE]

NoCall == [op |-> "none", caller |-> "none", cur |-> NoPath, la |-> 0,
           base |-> -1, i |-> 0, pc |-> "none", idx0 |-> 0, answered |-> NoAnswer]

\* a find_portrait_pair return value (should_pair, partner), with the call it
\* answers: the queried photo, the lookahead and current_index at the call
NoResult == [should_pair |-> FALSE, partner |-> NoPath, cur |-> NoPath, la |-> 0,
             idx0 |-> 0]

MainIdle == call.op = "none"

indexVars == <<portrait_photos, portrait_cache, portrait_scan_complete,
               portrait_scan_lock, scan>>

NextPhoto ==
    /\ MainIdle
    /\ current_index' = next_index(photo_files, current_index)
    /\ last_op' = "next_photo"
    /\ fpp_result' = NoResult
    /\ call' = NoCall
    /\ UNCHANGED <<photo_files, indexVars, portrait_on_disk>>
    /\ UNCHANGED nonSeqVars

PreviousPhoto ==
    /\ MainIdle
    /\ current_index' = previous_index(photo_files, current_index)
    /\ last_op' = "previous_photo"
    /\ fpp_result' = NoResult
    /\ call' = NoCall
    /\ UNCHANGED <<photo_files, indexVars, portrait_on_disk>>
    /\ UNCHANGED nonSeqVars

(***************************************************************************)
(* PhotoFileSet: background portrait scan                                  *)
(***************************************************************************)
ScanIdle == [pc |-> "unstarted", n0 |-> 0, bi |-> 0, batch |-> <<>>, k |-> 0]

UnstartedScans == {t \in ScanIds : scan[t].pc = "unstarted"}

\* _start_background_portrait_scan: no thread for an empty list
start_background_portrait_scan(files, sc) ==
    IF Len(files) = 0 \/ UnstartedScans = {}
    THEN sc
    ELSE LET t == CHOOSE u \in UnstartedScans : \A w \in UnstartedScans : u <= w
         IN  [sc EXCEPT ![t].pc = "acquire"]

\* with self.portrait_scan_lock: self.portrait_scan_complete = False
ScanAcquire(t) ==
    /\ scan[t].pc = "acquire"
    /\ portrait_scan_lock = 0
    /\ portrait_scan_lock' = t
    /\ portrait_scan_complete' = FALSE
    /\ scan' = [scan EXCEPT ![t].pc = "reset_set"]
    /\ UNCHANGED <<photo_files, current_index, portrait_photos, portrait_cache,
                   call, fpp_result, portrait_on_disk, last_op>>
    /\ UNCHANGED nonSeqVars

\* self.portrait_photos = set()
ScanResetSet(t) ==
    /\ scan[t].pc = "reset_set"
    /\ portrait_photos' = {}
    /\ scan' = [scan EXCEPT ![t].pc = "range"]
    /\ UNCHANGED <<photo_files, current_index, portrait_cache, portrait_scan_complete,
                   portrait_scan_lock, call, fpp_result, portrait_on_disk, last_op>>
    /\ UNCHANGED nonSeqVars

\* for i in range(0, len(self.photo_files), batch_size): the length is read once
ScanRange(t) ==
    /\ scan[t].pc = "range"
    /\ scan' = [scan EXCEPT ![t].pc = "batch", ![t].n0 = Len(photo_files), ![t].bi = 0]
    /\ UNCHANGED <<photo_files, current_index, portrait_photos, portrait_cache,
                   portrait_scan_complete, portrait_scan_lock, call, fpp_result,
                   portrait_on_disk, last_op>>
    /\ UNCHANGED nonSeqVars

\* batch = self.photo_files[i:i+batch_size], read from the list as it is now
ScanBatch(t) ==
    /\ scan[t].pc = "batch"
    /\ LET s == scan[t]
           b == Slice(photo_files, s.bi, s.bi + BatchSize)
       IN  scan' = IF s.bi >= s.n0
                   THEN [scan EXCEPT ![t].pc = "complete", ![t].batch = <<>>, ![t].k = 0]
                   ELSE IF Len(b) = 0
                   THEN [scan EXCEPT ![t].bi = s.bi + BatchSize]
                   ELSE [scan EXCEPT ![t].pc = "item", ![t].batch = b, ![t].k = 1]
    /\ UNCHANGED <<photo_files, current_index, portrait_photos, portrait_cache,
                   portrait_scan_complete, portrait_scan_lock, call, fpp_result,
                   portrait_on_disk, last_op>>
    /\ UNCHANGED nonSeqVars

\* the body of "for photo_path in batch"
\* a scan that gives up at the first file that cannot be decoded
ScanItem_aborting(t) ==
    /\ scan[t].pc = "item"
    /\ LET s == scan[t]
           p == s.batch[s.k]
           failed == p \in missing_on_disk \cup unreadable_on_disk
           v == IF portrait_cache[p] # "absent" THEN portrait_cache[p]
                ELSE BoolStr(is_portrait(p))
       IN  /\ portrait_cache' = IF failed THEN portrait_cache
                                ELSE [portrait_cache EXCEPT ![p] = v]
           /\ portrait_photos' = IF v = "yes" THEN portrait_photos \cup {p}
                                 ELSE portrait_photos
           /\ scan' = IF failed
                      THEN [scan EXCEPT ![t].pc = "complete", ![t].batch = <<>>,
                                        ![t].k = 0]
                      ELSE IF s.k < Len(s.batch)
                      THEN [scan EXCEPT ![t].k = s.k + 1]
                      ELSE [scan EXCEPT ![t].pc = "batch", ![t].bi = s.bi + BatchSize,
                                        ![t].batch = <<>>, ![t].k = 0]
    /\ UNCHANGED <<photo_files, current_index, portrait_scan_complete,
                   portrait_scan_lock, call, fpp_result, portrait_on_disk, last_op>>
    /\ UNCHANGED nonSeqVars

ScanItem(t) ==
    /\ scan[t].pc = "item"
    /\ LET s == scan[t]
           p == s.batch[s.k]
           v == IF portrait_cache[p] # "absent" THEN portrait_cache[p]
                ELSE BoolStr(is_portrait(p))
       IN  /\ portrait_cache' = [portrait_cache EXCEPT ![p] = v]
           /\ portrait_photos' = IF v = "yes" THEN portrait_photos \cup {p}
                                 ELSE portrait_photos
           /\ scan' = IF s.k < Len(s.batch)
                      THEN [scan EXCEPT ![t].k = s.k + 1]
                      ELSE [scan EXCEPT ![t].pc = "batch", ![t].bi = s.bi + BatchSize,
                                        ![t].batch = <<>>, ![t].k = 0]
    /\ UNCHANGED <<photo_files, current_index, portrait_scan_complete,
                   portrait_scan_lock, call, fpp_result, portrait_on_disk, last_op>>
    /\ UNCHANGED nonSeqVars

\* self.portrait_scan_complete = True, and the with-block releases the lock
ScanComplete(t) ==
    /\ scan[t].pc = "complete"
    /\ portrait_scan_complete' = TRUE
    /\ portrait_scan_lock' = 0
    /\ scan' = [scan EXCEPT ![t].pc = "done"]
    /\ UNCHANGED <<photo_files, current_index, portrait_photos, portrait_cache,
                   call, fpp_result, portrait_on_disk, last_op>>
    /\ UNCHANGED nonSeqVars

\* the steps of scan thread t
ScanThread(t) ==
    \/ ScanAcquire(t)
    \/ ScanResetSet(t)
    \/ ScanRange(t)
    \/ ScanBatch(t)
    \/ ScanItem(t)
    \/ ScanComplete(t)

background_portrait_scan == \E t \in ScanIds : ScanThread(t)

(***************************************************************************)
(* PhotoFileSet.rescan_directory                                           *)
(***************************************************************************)
\* a rescan that keeps the old index when the current photo has disappeared
rescan_index_kept(old_files, old_idx, new_files) ==
    LET current_file == get_current_photo_path(old_files, old_idx)
    IN  IF current_file # NoPath /\ current_file \in Range(new_files)
        THEN IndexOf(new_files, current_file)
        ELSE old_idx

\* a rescan that keeps the position instead of the path
rescan_index_keeps_position(old_files, old_idx, new_files) ==
    IF old_idx < Len(new_files) THEN old_idx ELSE 0

rescan_index(old_files, old_idx, new_files) ==
    LET current_file == get_current_photo_path(old_files, old_idx)
    IN  IF current_file # NoPath /\ current_file \in Range(new_files)
        THEN IndexOf(new_files, current_file)
        ELSE 0

RescanDirectory(new_files) ==
    /\ MainIdle
    /\ Len(new_files) = 0 \/ UnstartedScans # {}
    /\ photo_files' = new_files
    /\ current_index' = rescan_index(photo_files, current_index, new_files)
    /\ scan' = start_background_portrait_scan(new_files, scan)
    /\ last_op' = "rescan_directory"
    /\ fpp_result' = NoResult
    /\ call' = NoCall
    /\ UNCHANGED <<portrait_photos, portrait_cache, portrait_scan_complete,
                   portrait_scan_lock, portrait_on_disk>>
    /\ UNCHANGED nonSeqVars

(***************************************************************************)
(* PhotoFileSet.find_portrait_pair and is_portrait_photo.                  *)
(* The main flow reads portrait_photos, portrait_scan_complete and         *)
(* portrait_cache without the lock (three separate reads), then takes the  *)
(* lock for the on-demand check; each read is a step of its own.           *)
(***************************************************************************)
\* the path whose orientation the call is asking for: i = 0 is the queried
\* photo itself, i >= 1 the photo i positions ahead of it
QueriedPath(c) ==
    IF c.i = 0 THEN c.cur
    ELSE At(photo_files, (c.base + c.i) % Len(photo_files))

\* range(1, min(lookahead + 1, len(self.photo_files))) contains i
InLookaheadRange(i, la, n) == 1 <= i /\ i < Min(la + 1, n)

\* a find_portrait_pair without the "must be a portrait photo" early return
fpp_continue_unguarded(c, r, files, idx) ==
    LET n == Len(files)
        ret(sp, partner, newidx) ==
            [done |-> TRUE, call |-> c,
             result |-> [should_pair |-> sp, partner |-> partner, cur |-> c.cur,
                         la |-> c.la, idx0 |-> c.idx0],
             index |-> newidx]
        go(base, i) ==
            [done |-> FALSE, call |-> [c EXCEPT !.base = base, !.i = i, !.pc = "r1"],
             result |-> NoResult, index |-> idx]
    IN  IF c.i = 0
        THEN LET b == IndexOf(files, c.cur)
             IN  IF b = -1 THEN ret(FALSE, NoPath, idx)
                 ELSE IF InLookaheadRange(1, c.la, n) THEN go(b, 1)
                 ELSE ret(FALSE, NoPath, idx)
        ELSE IF r
             THEN ret(TRUE, At(files, (c.base + c.i) % n),
                      IF c.i > 1 THEN (c.base + c.i - 1) % n ELSE idx)
             ELSE IF InLookaheadRange(c.i + 1, c.la, n) THEN go(c.base, c.i + 1)
             ELSE ret(FALSE, NoPath, idx)

\* what find_portrait_pair does once is_portrait_photo(QueriedPath) returned r:
\* the call's next position, or its return value and the new current_index
fpp_continue(c, r, files, idx) ==
    LET n == Len(files)
        ret(sp, partner, newidx) ==
            [done |-> TRUE, call |-> c,
             result |-> [should_pair |-> sp, partner |-> partner, cur |-> c.cur,
                         la |-> c.la, idx0 |-> c.idx0],
             index |-> newidx]
        go(base, i) ==
            [done |-> FALSE, call |-> [c EXCEPT !.base = base, !.i = i, !.pc = "r1"],
             result |-> NoResult, index |-> idx]
    IN  IF c.i = 0
        THEN IF ~r THEN ret(FALSE, NoPath, idx)
             ELSE LET b == IndexOf(files, c.cur)
                  IN  IF b = -1 THEN ret(FALSE, NoPath, idx)
                      ELSE IF InLookaheadRange(1, c.la, n) THEN go(b, 1)
                      ELSE ret(FALSE, NoPath, idx)
        ELSE IF r
             THEN ret(TRUE, At(files, (c.base + c.i) % n),
                      IF c.i > 1 THEN (c.base + c.i - 1) % n ELSE idx)
             ELSE IF InLookaheadRange(c.i + 1, c.la, n) THEN go(c.base, c.i + 1)
             ELSE ret(FALSE, NoPath, idx)

\* is_portrait_photo returned r to find_portrait_pair
IppReturn(r) ==
    LET k == fpp_continue(call, r, photo_files, current_index)
        ans == [path |-> QueriedPath(call), portrait |-> r]
    IN  /\ current_index' = k.index
        /\ IF k.done
           THEN /\ fpp_result' = k.result
                /\ IF call.caller = "api"
                   THEN /\ call' = [NoCall EXCEPT !.answered = ans]
                        /\ last_op' = "find_portrait_pair"
                   ELSE /\ call' = [call EXCEPT !.pc = "returned", !.answered = ans]
                        /\ UNCHANGED last_op
           ELSE /\ call' = [k.call EXCEPT !.answered = ans]
                /\ UNCHANGED <<fpp_result, last_op>>

\* the main flow calls find_portrait_pair(current_photo, lookahead)
FindPortraitPair(cur, la) ==
    /\ MainIdle
    /\ cur # NoPath
    /\ cur = get_current_photo_path(photo_files, current_index)
    /\ call' = [op |-> "find_portrait_pair", caller |-> "api", cur |-> cur, la |-> la,
                base |-> -1, i |-> 0, pc |-> "r1", idx0 |-> current_index,
                        answered |-> NoAnswer]
    /\ UNCHANGED <<photo_files, current_index, indexVars, fpp_result, portrait_on_disk,
                   last_op>>
    /\ UNCHANGED nonSeqVars

\* if photo_path in self.portrait_photos: return True
IppReadSet ==
    /\ call.op = "find_portrait_pair" /\ call.pc = "r1"
    /\ IF QueriedPath(call) \in portrait_photos
       THEN IppReturn(TRUE)
       ELSE /\ call' = [call EXCEPT !.pc = "r2", !.answered = NoAnswer]
            /\ UNCHANGED <<current_index, fpp_result, last_op>>
    /\ UNCHANGED <<photo_files, indexVars, portrait_on_disk>>
    /\ UNCHANGED nonSeqVars

\* if self.portrait_scan_complete and ...: the flag is read first
IppReadComplete ==
    /\ call.op = "find_portrait_pair" /\ call.pc = "r2"
    /\ call' = [call EXCEPT !.pc = IF portrait_scan_complete THEN "r3" ELSE "lock"]
    /\ UNCHANGED <<photo_files, current_index, indexVars, fpp_result, portrait_on_disk,
                   last_op>>
    /\ UNCHANGED nonSeqVars

\* ... and photo_path in self.portrait_cache: return False
IppReadCache ==
    /\ call.op = "find_portrait_pair" /\ call.pc = "r3"
    /\ IF portrait_cache[QueriedPath(call)] # "absent"
       THEN IppReturn(FALSE)
       ELSE /\ call' = [call EXCEPT !.pc = "lock"]
            /\ UNCHANGED <<current_index, fpp_result, last_op>>
    /\ UNCHANGED <<photo_files, indexVars, portrait_on_disk>>
    /\ UNCHANGED nonSeqVars

\* with self.portrait_scan_lock: the on-demand check, cached
IppLocked ==
    /\ call.op = "find_portrait_pair" /\ call.pc = "lock"
    /\ portrait_scan_lock = 0
    /\ LET p == QueriedPath(call)
           v == IF portrait_cache[p] # "absent" THEN portrait_cache[p]
                ELSE BoolStr(is_portrait(p))
       IN  /\ portrait_cache' = [portrait_cache EXCEPT ![p] = v]
           /\ portrait_photos' = IF portrait_cache[p] = "absent" /\ v = "yes"
                                 THEN portrait_photos \cup {p}
                                 ELSE portrait_photos
           /\ IppReturn(v = "yes")
    /\ UNCHANGED <<photo_files, portrait_scan_complete, portrait_scan_lock, scan,
                   portrait_on_disk>>
    /\ UNCHANGED nonSeqVars

is_portrait_photo ==
    \/ IppReadSet
    \/ IppReadComplete
    \/ IppReadCache
    \/ IppLocked

(***************************************************************************)
(* PhotoPreparationManager: the bounded pixmap cache                       *)
(***************************************************************************)
\* self._cache_size_limit
CacheSizeLimit == 10

\* number of photos the slideshow cycles through while the cache is observed
NumPrepPaths == 13

PrepPaths == 1..NumPrepPaths

\* number of backward (previous photo) requests that are explored
MaxBackSteps == 2

\* what decoding a file does: load_photo raises for an unreadable file; the
\* conversion to a pixmap raises for a file whose pixel data is broken
FileStatus(path) ==
    IF path = 1 THEN "unreadable"
    ELSE IF path = 2 THEN "unconvertible"
    ELSE "ok"

PrepPathAt(pos) == (pos % NumPrepPaths) + 1

\* view sizes (width, height) the window takes
ScreenSizes == {<<100, 50>>}

\* the photos of the cycle that are portrait: the last two
PrepPortraits == {NumPrepPaths - 1, NumPrepPaths}

\* the partner find_portrait_pair finds for the photo at a position: the first
\* other portrait photo within the default lookahead, NoPath if there is none
PrepPartnerOffset(pos) ==
    LET hits == {i \in 1..Min(DefaultLookahead, NumPrepPaths - 1) :
                    PrepPathAt(pos + i) \in PrepPortraits}
    IN  IF PrepPathAt(pos) \notin PrepPortraits \/ hits = {} THEN 0
        ELSE CHOOSE i \in hits : \A j \in hits : i <= j

\* int(x / 2 - 5): Python's int() truncates toward zero
HalfScreenWidth(w) ==
    IF w >= 10 THEN (w - 10) \div 2 ELSE -((10 - w) \div 2)

half_screen_size(size) == <<HalfScreenWidth(size[1]), size[2]>>

\* f"{photo_path}_{w}x{h}_{apply_blur}": the string determines its four parts
cache_key(path, size, blur) == <<path, size[1], size[2], blur>>

AllSizes == ScreenSizes \cup {half_screen_size(sz) : sz \in ScreenSizes}

\* config 'apply_blur_background', default True at every call of show_photo
Blurs == {TRUE}

AllKeys == {cache_key(path, sz, b) : path \in PrepPaths, sz \in AllSizes, b \in Blurs}

EmptyPixmap == [key |-> <<0, 0, 0, FALSE>>, n |-> 0]

NoTrack == [reqs |-> 0, loads |-> 0, pix |-> EmptyPixmap]

CachedKeys(cache) == {cache[k].key : k \in 1..Len(cache)}

CacheEntry(cache, key) == cache[CHOOSE k \in 1..Len(cache) : cache[k].key = key]

\* a _update_cache that drops the newest entries instead of the oldest
update_cache_keep_oldest(cache, entry) ==
    LET c == Append(cache, entry)
    IN  IF Len(c) > CacheSizeLimit THEN SubSeq(c, 1, CacheSizeLimit) ELSE c

\* _update_cache: add the entry, then delete list(keys())[:-limit]
update_cache(cache, entry) ==
    LET c == Append(cache, entry)
    IN  IF Len(c) > CacheSizeLimit
        THEN SubSeq(c, Len(c) - CacheSizeLimit + 1, Len(c))
        ELSE c

Bump(x) == Min(x + 1, 2)

\* a cache lookup that never hits
cache_lookup_never(cache, key) == FALSE

\* "cache_key in self._pixmap_cache"
cache_lookup(cache, key) == key \in CachedKeys(cache)

\* one photo slot of prepare_single_photo / prepare_photo_pair: the cache
\* check, and on a miss load_photo, the conversion and _update_cache
prepare_slot(cache, trk, path, size, blur) ==
    LET key == cache_key(path, size, blur)
        t == trk[key]
        miss == [trk EXCEPT ![key].loads = Bump(t.loads)]
        pix == [key |-> key, n |-> Bump(t.loads)]
        newcache == update_cache(cache, [key |-> key, pixmap |-> pix, exif |-> path])
        evicted == CachedKeys(cache) \ CachedKeys(newcache)
    IN  IF cache_lookup(cache, key)
        THEN [cache |-> cache, trk |-> trk, key |-> key, hit |-> TRUE, raised |-> FALSE,
              pixmap |-> CacheEntry(cache, key).pixmap, exif |-> CacheEntry(cache, key).exif,
              evicted |-> {}]
        ELSE IF FileStatus(path) = "unreadable"
        THEN [cache |-> cache, trk |-> miss, key |-> key, hit |-> FALSE, raised |-> TRUE,
              pixmap |-> EmptyPixmap, exif |-> 0, evicted |-> {}]
        ELSE IF FileStatus(path) = "unconvertible"
        THEN [cache |-> cache, trk |-> miss, key |-> key, hit |-> FALSE, raised |-> FALSE,
              pixmap |-> EmptyPixmap, exif |-> path, evicted |-> {}]
        ELSE [cache |-> newcache,
              trk |-> [k \in AllKeys |-> IF k \in evicted THEN NoTrack ELSE miss[k]],
              key |-> key, hit |-> FALSE, raised |-> FALSE,
              pixmap |-> pix, exif |-> path, evicted |-> evicted]

\* the key is marked as requested, with the bitmap its first request returned
note_request(trk, key, pix) ==
    [trk EXCEPT ![key].reqs = 1,
                ![key].pix = IF trk[key].reqs = 0 THEN pix ELSE @]

\* the outcome of a call; "repeat": the key had been requested before with no
\* clear_cache and no eviction of it since; "loads": load_photo calls for the
\* key since then, this call included; "first": the bitmap returned first
NoPrep == [kind |-> "none", keys |-> <<>>, hits |-> <<>>, pixmaps |-> <<>>,
           raised |-> FALSE, evicted |-> {}, repeat |-> FALSE, loads |-> 0,
           first |-> EmptyPixmap]


\* show_photo -> prepare_single_photo(current_photo, screen_size, apply_blur, ...)
\* after the slideshow moved d photos (0: the same photo again, as on a resize)
PrepareSinglePhoto(d, size, blur) ==
    LET pos == (req_pos + d) % NumPrepPaths
        r == prepare_slot(pixmap_cache, tracked, PrepPathAt(pos), size, blur)
    IN  /\ d = -1 => back_steps < MaxBackSteps
        /\ back_steps' = IF d = -1 THEN back_steps + 1 ELSE back_steps
        /\ req_pos' = pos
        /\ pixmap_cache' = r.cache
        /\ tracked' = note_request(r.trk, r.key, r.pixmap)
        /\ last_prep' = [kind |-> "single", keys |-> <<r.key>>, hits |-> <<r.hit>>,
                         pixmaps |-> <<r.pixmap>>, raised |-> r.raised,
                         evicted |-> r.evicted, repeat |-> tracked[r.key].reqs = 1,
                         loads |-> r.trk[r.key].loads, first |-> tracked[r.key].pix]
        /\ UNCHANGED <<blurred, pair_geometry, seqVars, transVars, frameVars>>

\* show_photo -> prepare_photo_pair(current_photo, next_portrait, screen_size, ...)
PreparePhotoPair(d, size, blur) ==
    LET pos == (req_pos + d) % NumPrepPaths
        off == PrepPartnerOffset(pos)
        half == half_screen_size(size)
        r1 == prepare_slot(pixmap_cache, tracked, PrepPathAt(pos), half, blur)
        r2 == prepare_slot(r1.cache, r1.trk, PrepPathAt(pos + off), half, blur)
    IN  /\ off > 0
        /\ d = -1 => back_steps < MaxBackSteps
        /\ back_steps' = IF d = -1 THEN back_steps + 1 ELSE back_steps
        /\ req_pos' = (pos + off) % NumPrepPaths
        /\ IF r1.raised
           THEN /\ pixmap_cache' = r1.cache
                /\ tracked' = r1.trk
                /\ last_prep' = [kind |-> "pair", keys |-> <<r1.key>>, hits |-> <<r1.hit>>,
                                 pixmaps |-> <<r1.pixmap>>, raised |-> TRUE,
                                 evicted |-> r1.evicted, repeat |-> FALSE, loads |-> 0,
                                 first |-> EmptyPixmap]
           ELSE /\ pixmap_cache' = r2.cache
                /\ tracked' = r2.trk
                /\ last_prep' = [kind |-> "pair", keys |-> <<r1.key, r2.key>>,
                                 hits |-> <<r1.hit, r2.hit>>,
                                 pixmaps |-> <<r1.pixmap, r2.pixmap>>,
                                 raised |-> r2.raised,
                                 evicted |-> r1.evicted \cup r2.evicted,
                                 repeat |-> FALSE, loads |-> 0, first |-> EmptyPixmap]
        /\ UNCHANGED <<blurred, pair_geometry, seqVars, transVars, frameVars>>

\* clear_cache
ClearCache ==
    /\ pixmap_cache' = <<>>
    /\ tracked' = [k \in AllKeys |-> NoTrack]
    /\ last_prep' = [NoPrep EXCEPT !.kind = "clear"]
    /\ UNCHANGED <<req_pos, back_steps, blurred, pair_geometry, seqVars, transVars,
                   frameVars>>

(***************************************************************************)
(* photo_processing: the blurred background behind a letterboxed photo     *)
(***************************************************************************)
\* image and screen dimensions run over 1..MaxDim
MaxDim == 6

Dims == 1..MaxDim
Sizes == Dims \X Dims

\* a scale factor is the fraction num / den; int(dim * factor) truncates
Truncated(dim, factor) == (dim * factor[1]) \div factor[2]

\* min(target_width / img_width, target_height / img_height)
smaller_ratio(img_width, img_height, target_width, target_height) ==
    IF target_width * img_height <= target_height * img_width
    THEN <<target_width, img_width>>
    ELSE <<target_height, img_height>>

\* max(screen_width / img_width, screen_height / img_height)
larger_ratio(img_width, img_height, screen_width, screen_height) ==
    IF screen_width * img_height >= screen_height * img_width
    THEN <<screen_width, img_width>>
    ELSE <<screen_height, img_height>>

get_scaled_size(img_width, img_height, target_width, target_height) ==
    LET scale_factor == smaller_ratio(img_width, img_height, target_width, target_height)
    IN  <<Truncated(img_width, scale_factor), Truncated(img_height, scale_factor)>>

\* the background is scaled by the ratio that only fits it into the screen
create_blurred_background_fitted(image, screen_size) ==
    LET scaled_size == get_scaled_size(image[1], image[2], screen_size[1], screen_size[2])
        bg_scale_factor == smaller_ratio(image[1], image[2], screen_size[1], screen_size[2])
        bg_width == Truncated(image[1], bg_scale_factor)
        bg_height == Truncated(image[2], bg_scale_factor)
        left == (bg_width - screen_size[1]) \div 2
        top == (bg_height - screen_size[2]) \div 2
    IN  IF scaled_size[1] < screen_size[1] \/ scaled_size[2] < screen_size[2]
        THEN [unchanged |-> FALSE, scaled |-> scaled_size,
              size |-> <<(left + screen_size[1]) - left, (top + screen_size[2]) - top>>,
              bg |-> <<bg_width, bg_height>>, left |-> left, top |-> top,
              paste_x |-> (screen_size[1] - scaled_size[1]) \div 2,
              paste_y |-> (screen_size[2] - scaled_size[2]) \div 2]
        ELSE [unchanged |-> TRUE, scaled |-> scaled_size, size |-> image,
              bg |-> <<0, 0>>, left |-> 0, top |-> 0, paste_x |-> 0, paste_y |-> 0]

\* create_blurred_background(image, screen_size): what is returned (the input
\* itself, or a new image of the size of the crop box), with the size of the
\* resized background, the crop origin and the paste offsets when computed
create_blurred_background(image, screen_size) ==
    LET scaled_size == get_scaled_size(image[1], image[2], screen_size[1], screen_size[2])
        bg_scale_factor == larger_ratio(image[1], image[2], screen_size[1], screen_size[2])
        bg_width == Truncated(image[1], bg_scale_factor)
        bg_height == Truncated(image[2], bg_scale_factor)
        left == (bg_width - screen_size[1]) \div 2
        top == (bg_height - screen_size[2]) \div 2
    IN  IF scaled_size[1] < screen_size[1] \/ scaled_size[2] < screen_size[2]
        THEN [unchanged |-> FALSE, scaled |-> scaled_size,
              size |-> <<(left + screen_size[1]) - left, (top + screen_size[2]) - top>>,
              bg |-> <<bg_width, bg_height>>, left |-> left, top |-> top,
              paste_x |-> (screen_size[1] - scaled_size[1]) \div 2,
              paste_y |-> (screen_size[2] - scaled_size[2]) \div 2]
        ELSE [unchanged |-> TRUE, scaled |-> scaled_size, size |-> image,
              bg |-> <<0, 0>>, left |-> 0, top |-> 0, paste_x |-> 0, paste_y |-> 0]

\* no call yet
NoBlur == [image |-> <<0, 0>>, screen |-> <<0, 0>>,
           out |-> [unchanged |-> TRUE, scaled |-> <<0, 0>>, size |-> <<0, 0>>,
                    bg |-> <<0, 0>>, left |-> 0, top |-> 0, paste_x |-> 0, paste_y |-> 0]]

\* load_photo -> create_blurred_background(pil_img, screen_size)
CreateBlurredBackground(image, screen_size) ==
    /\ blurred' = [image |-> image, screen |-> screen_size,
                   out |-> create_blurred_background(image, screen_size)]
    /\ UNCHANGED <<pixmap_cache, req_pos, tracked, last_prep, back_steps, pair_geometry>>
    /\ UNCHANGED <<seqVars, transVars, frameVars>>


(***************************************************************************)
(* prepare_photo_pair: the sizes and positions of the two photos           *)
(***************************************************************************)
\* the photos of a pair have sizes with dimensions in 1..MaxPairDim
MaxPairDim == 3

PairImageSizes == (1..MaxPairDim) \X (1..MaxPairDim)

\* the screens a pair is prepared for: even and odd widths
PairScreens == {<<24, 10>>, <<40, 30>>, <<25, 30>>, <<31, 20>>}

\* the gap between the two photos of a pair, in pixels
PairGap == 10

\* QPixmap.scaled(w, h, KeepAspectRatio): the size Qt gives the result
\* (QSize::scaled, in integer arithmetic)
pixmap_scaled(size, w, h) ==
    LET rw == (h * size[1]) \div size[2]
    IN  IF rw <= w THEN <<rw, h>> ELSE <<w, (w * size[2]) \div size[1]>>

\* load_photo(path, half_screen_size, apply_blur): the size of the image
loaded_size(image, half, blur) ==
    IF blur THEN create_blurred_background(image, half).size ELSE image

\* one photo of the pair: loaded against the half screen, converted and
\* scaled with half_screen_width and the screen height
pair_pixmap_size(image, screen_size, blur) ==
    LET half == half_screen_size(screen_size)
    IN  pixmap_scaled(loaded_size(image, half, blur), half[1], screen_size[2])

\* the positions computed at the end of prepare_photo_pair; they are
\* halves of integers and are kept doubled
pair_positions(pixmap1, pixmap2, screen_size) ==
    LET total_width == pixmap1[1] + PairGap + pixmap2[1]
        start_x2 == screen_size[1] - total_width
    IN  [pixmap1 |-> pixmap1, pixmap2 |-> pixmap2, screen |-> screen_size,
         image1_x2 |-> start_x2,
         image1_y2 |-> screen_size[2] - pixmap1[2],
         image2_x2 |-> start_x2 + 2 * (pixmap1[1] + PairGap),
         image2_y2 |-> screen_size[2] - pixmap2[2]]

\* no pair prepared yet
NoGeometry == pair_positions(<<0, 0>>, <<0, 0>>, <<0, 0>>)

\* prepare_photo_pair(photo1_path, photo2_path, screen_size, apply_blur, ...)
\* on two decodable photos of the given sizes
PreparePairGeometry(image1, image2, screen_size, blur) ==
    /\ pair_geometry' = pair_positions(pair_pixmap_size(image1, screen_size, blur),
                                       pair_pixmap_size(image2, screen_size, blur),
                                       screen_size)
    /\ UNCHANGED <<pixmap_cache, req_pos, tracked, last_prep, back_steps, blurred>>
    /\ UNCHANGED <<seqVars, transVars, frameVars>>

(***************************************************************************)
(* PhotoDisplay and TransitionManager: cross-dissolve transitions          *)
(***************************************************************************)
\* number of display operations explored
MaxOps == 3

\* an animation's duration is divided into this many slots; a frame of the
\* animation timer lands on a slot
FrameSlots == 60

\* PhotoDisplay._cleanup_threshold
CleanupThreshold == 20

\* transition_time values handed to start_photo_transition, in ms
\* (ConfigManager.parse_time_string of '1s' is 1000)
Durations == {-1, 0, 1000}

OpIds == 1..MaxOps
NoDetails == 0
FreshGroup == 0

\* QEasingCurve.InOutCubic at slot p, as a numerator over FrameSlots^3:
\* 4 t^3 below the half, 1 - 4 (1 - t)^3 from the half on
EaseNum(p) ==
    IF 2 * p < FrameSlots
    THEN 4 * p * p * p
    ELSE FrameSlots * FrameSlots * FrameSlots
         - 4 * (FrameSlots - p) * (FrameSlots - p) * (FrameSlots - p)

\* opacity 1.0 as a numerator over FrameSlots^3
Opaque == FrameSlots * FrameSlots * FrameSlots

\* the opacities UIComponentManager sets in __init__, swap_layers and the
\* reset of _display_photo_immediately
ResetOpacity == [current |-> Opaque, next |-> 0]

\* the pixmap items as UIComponentManager creates them: no bitmap
EmptyLayers == [current |-> NoDetails, next |-> NoDetails]

\* fade_out_left and fade_in_next at slot p of the duration
FadeAt(p) == [current |-> Opaque - EaseNum(p), next |-> EaseNum(p)]

\* 0.45 <= value <= 0.55 for the opacity value of fade_in_next at slot p
InBand(p) ==
    LET cube == FrameSlots * FrameSlots * FrameSlots IN
    /\ 45 * cube <= 100 * EaseNum(p)
    /\ 100 * EaseNum(p) <= 55 * cube

\* the fields of the two objects as one record, so that nested calls compose
TransState ==
    [tm_in |-> tm_in_transition, tm_details |-> tm_photo_details,
     cb |-> on_transition_finished_callback, grp |-> fade_animation_group,
     gstate |-> group_state, gtime |-> group_time,
     d_in |-> display_in_transition, d_cur |-> current_photo_details,
     d_next |-> next_photo_details, counter |-> cleanup_counter,
     cleaned |-> cleaned, overlay |-> overlay, opacity |-> opacity,
     pixmaps |-> pixmaps,
     callbacks |-> callbacks, mid |-> mid_swaps, cleared |-> FALSE]

\* the mutation of stop() that leaves the running animation running
animation_group_stop_skipped(ts) == ts

\* QParallelAnimationGroup.stop(): a running group becomes stopped and emits
\* no finished signal; a group that is not running is left as it is.  The
\* current time of a stopped group is read by nothing and is not kept.
animation_group_stop(ts) ==
    IF ts.grp # FreshGroup /\ ts.gstate[ts.grp] = "running"
    THEN [ts EXCEPT !.gstate[ts.grp] = "stopped", !.gtime[ts.grp] = 0]
    ELSE ts

\* a cancel_transition that forgets to reset in_transition
cancel_transition_keeps_flag(ts) ==
    IF ~ts.tm_in THEN ts
    ELSE [animation_group_stop(ts) EXCEPT !.grp = FreshGroup]

\* TransitionManager.cancel_transition
cancel_transition(ts) ==
    IF ~ts.tm_in THEN ts
    ELSE [animation_group_stop(ts) EXCEPT !.grp = FreshGroup, !.tm_in = FALSE]

\* PhotoDisplay._cleanup_photo_details
cleanup_photo_details(ts, d) ==
    IF d = NoDetails THEN ts ELSE [ts EXCEPT !.cleaned = @ \cup {d}]

\* UIComponentManager.swap_layers: the current layer takes the bitmap of the
\* next layer, the next layer is emptied and the opacities are reset
swap_layers(ts) ==
    [ts EXCEPT !.pixmaps = [current |-> ts.pixmaps.next, next |-> NoDetails],
               !.opacity = ResetOpacity]

\* a finalisation that releases the bitmaps of the promoted photo
finalize_transition_cleans_next(ts) ==
    IF ts.d_next = NoDetails THEN ts
    ELSE [cleanup_photo_details(swap_layers(ts), ts.d_next) EXCEPT
             !.d_cur = ts.d_next, !.d_next = NoDetails, !.d_in = FALSE]

\* PhotoDisplay._finalize_transition
finalize_transition(ts) ==
    IF ts.d_next = NoDetails THEN ts
    ELSE [cleanup_photo_details(swap_layers(ts), ts.d_cur) EXCEPT
             !.d_cur = ts.d_next, !.d_next = NoDetails, !.d_in = FALSE]

\* the stored completion callback is invoked on behalf of session s
invoke_finished_callback(ts, s) ==
    IF ts.cb = "none" THEN ts
    ELSE finalize_transition([ts EXCEPT !.callbacks[s] = @ + 1])

\* TransitionManager._prepare_next_photo_for_transition: the bitmap of the
\* stored next details is set on the next layer
prepare_next_photo_for_transition(ts) ==
    IF ts.tm_details.next = NoDetails THEN ts
    ELSE [ts EXCEPT !.pixmaps.next = ts.tm_details.next]

\* a start_transition that does not stop the group it holds
start_transition_without_stop(ts, cur, nxt, duration, n) ==
    LET t2 == [ts EXCEPT !.tm_details = [current |-> cur, next |-> nxt],
                         !.cb = "_finalize_transition",
                         !.tm_in = TRUE]
    IN  IF duration <= 0
        THEN invoke_finished_callback(t2, n)
        ELSE [prepare_next_photo_for_transition(t2) EXCEPT
                 !.grp = n, !.gstate[n] = "running", !.gtime[n] = 0,
                 !.opacity = FadeAt(0)]

\* TransitionManager.start_transition for session n
start_transition(ts, cur, nxt, duration, n) ==
    LET t1 == IF ts.tm_in THEN animation_group_stop(ts) ELSE ts
        t2 == [t1 EXCEPT !.tm_details = [current |-> cur, next |-> nxt],
                         !.cb = "_finalize_transition",
                         !.tm_in = TRUE]
    IN  IF duration <= 0
        THEN invoke_finished_callback(t2, n)
        ELSE [prepare_next_photo_for_transition(t2) EXCEPT
                 !.grp = n, !.gstate[n] = "running", !.gtime[n] = 0,
                 !.opacity = FadeAt(0)]

\* a counter that is compared with > instead of >=
count_display_operation_late(ts) ==
    IF ts.counter + 1 > CleanupThreshold
    THEN [ts EXCEPT !.counter = 0, !.cleared = TRUE]
    ELSE [ts EXCEPT !.counter = @ + 1]

\* PhotoDisplay._perform_memory_cleanup when the counter reaches the threshold
count_display_operation(ts) ==
    IF ts.counter + 1 >= CleanupThreshold
    THEN [ts EXCEPT !.counter = 0, !.cleared = TRUE]
    ELSE [ts EXCEPT !.counter = @ + 1]

\* a start that cancels the running transition and keeps the bitmaps of the
\* photo it was leading to
start_photo_transition_keeps_next(ts, n, duration) ==
    LET t1 == IF ts.d_in THEN cancel_transition(ts) ELSE ts
        t2 == [t1 EXCEPT !.d_next = n, !.d_in = TRUE]
        t3 == start_transition(t2, t2.d_cur, n, duration, n)
    IN  count_display_operation(t3)

\* PhotoDisplay.start_photo_transition with the details n
start_photo_transition(ts, n, duration) ==
    LET t1 == IF ts.d_in
              THEN LET c == cancel_transition(ts) IN
                   IF c.d_next # NoDetails /\ n # c.d_next
                   THEN cleanup_photo_details(c, c.d_next) ELSE c
              ELSE ts
        t2 == [t1 EXCEPT !.d_next = n, !.d_in = TRUE]
        t3 == start_transition(t2, t2.d_cur, n, duration, n)
    IN  count_display_operation(t3)

\* an immediate display that releases the bitmaps of the record it installs
display_photo_immediately_cleans_new(ts, n) ==
    LET t1 == cleanup_photo_details(ts, n)
        t2 == [t1 EXCEPT !.pixmaps = [current |-> n, next |-> NoDetails],
                         !.overlay = n, !.opacity = ResetOpacity, !.d_cur = n,
                         !.d_next = NoDetails, !.d_in = FALSE]
    IN  count_display_operation(t2)

\* an immediate display that leaves the display's in_transition untouched
display_photo_immediately_keeps_flag(ts, n) ==
    LET t1 == cleanup_photo_details(ts, ts.d_cur)
        t2 == [t1 EXCEPT !.pixmaps = [current |-> n, next |-> NoDetails],
                         !.overlay = n, !.opacity = ResetOpacity, !.d_cur = n,
                         !.d_next = NoDetails]
    IN  count_display_operation(t2)

\* PhotoDisplay._display_photo_immediately with the details n
display_photo_immediately(ts, n) ==
    LET t1 == cleanup_photo_details(ts, ts.d_cur)
        t2 == [t1 EXCEPT !.pixmaps = [current |-> n, next |-> NoDetails],
                         !.overlay = n, !.opacity = ResetOpacity, !.d_cur = n,
                         !.d_next = NoDetails, !.d_in = FALSE]
    IN  count_display_operation(t2)

\* TransitionManager._update_mid_transition(value) for a frame of session s,
\* and PhotoDisplay._update_metadata_mid_transition behind it
update_mid_transition(ts, s, p) ==
    IF InBand(p) /\ ts.tm_details.next # NoDetails /\ ts.d_next # NoDetails
    THEN [ts EXCEPT !.overlay = ts.d_next, !.mid[s] = @ + 1]
    ELSE ts

\* TransitionManager._on_transition_finished, run by the finished signal of s
on_transition_finished(ts, s) ==
    invoke_finished_callback([ts EXCEPT !.grp = FreshGroup], s)

NoStart == [op |-> 0, duration |-> 0, callback_ran |-> FALSE,
            animation_started |-> FALSE, in_transition |-> FALSE]

\* the variables take the fields of the record; _perform_memory_cleanup
\* clears the preparation cache
SetTransState(r) ==
    /\ tm_in_transition' = r.tm_in
    /\ tm_photo_details' = r.tm_details
    /\ on_transition_finished_callback' = r.cb
    /\ fade_animation_group' = r.grp
    /\ group_state' = r.gstate
    /\ group_time' = r.gtime
    /\ display_in_transition' = r.d_in
    /\ current_photo_details' = r.d_cur
    /\ next_photo_details' = r.d_next
    /\ cleanup_counter' = r.counter
    /\ cleaned' = r.cleaned
    /\ overlay' = r.overlay
    /\ opacity' = r.opacity
    /\ pixmaps' = r.pixmaps
    /\ callbacks' = r.callbacks
    /\ mid_swaps' = r.mid
    /\ IF r.cleared
       THEN /\ pixmap_cache' = <<>>
            /\ tracked' = [k \in AllKeys |-> NoTrack]
            /\ last_prep' = [NoPrep EXCEPT !.kind = "clear"]
            /\ UNCHANGED <<req_pos, back_steps, blurred, pair_geometry>>
       ELSE UNCHANGED prepVars
    /\ UNCHANGED <<seqVars, frameVars>>

\* show_photo hands prepared details to PhotoDisplay.start_photo_transition
StartPhotoTransition(duration) ==
    /\ ops < MaxOps
    /\ LET n == ops + 1
           r == start_photo_transition(TransState, n, duration)
       IN  /\ SetTransState(r)
           /\ ops' = n
           /\ last_start' = [op |-> n, duration |-> duration,
                             callback_ran |-> r.callbacks[n] > 0,
                             animation_started |-> r.gstate[n] # "unused",
                             in_transition |-> r.tm_in]

\* show_photo(skip_transition=True) ends in _display_photo_immediately
DisplayPhotoImmediately ==
    /\ ops < MaxOps
    /\ LET n == ops + 1 IN
       /\ SetTransState(display_photo_immediately(TransState, n))
       /\ ops' = n
    /\ last_start' = NoStart

\* a frame of the animation timer before the end of the duration: the value
\* of fade_in_next changes and valueChanged is emitted
AnimationFrame(s) ==
    /\ group_state[s] = "running"
    /\ \E p \in (group_time[s] + 1)..(FrameSlots - 1) :
          SetTransState(update_mid_transition(
              [TransState EXCEPT !.gtime[s] = p, !.opacity = FadeAt(p)], s, p))
    /\ last_start' = NoStart
    /\ UNCHANGED ops

\* the frame that reaches the end of the duration: the value becomes 1.0,
\* the group stops by itself and emits finished
AnimationEnd(s) ==
    /\ group_state[s] = "running"
    /\ LET t1 == update_mid_transition(
                     [TransState EXCEPT !.gtime[s] = FrameSlots,
                                        !.opacity = FadeAt(FrameSlots)], s, FrameSlots)
           t2 == [t1 EXCEPT !.gstate[s] = "finished", !.gtime[s] = 0]
       IN  SetTransState(on_transition_finished(t2, s))
    /\ last_start' = NoStart
    /\ UNCHANGED ops

InitTransVars ==
    /\ tm_in_transition = FALSE
    /\ tm_photo_details = [current |-> NoDetails, next |-> NoDetails]
    /\ on_transition_finished_callback = "none"
    /\ fade_animation_group = FreshGroup
    /\ group_state = [s \in OpIds |-> "unused"]
    /\ group_time = [s \in OpIds |-> 0]
    /\ display_in_transition = FALSE
    /\ current_photo_details = NoDetails
    /\ next_photo_details = NoDetails
    /\ cleanup_counter = 0
    /\ cleaned = {}
    /\ overlay = NoDetails
    /\ opacity = ResetOpacity
    /\ pixmaps = EmptyLayers
    /\ ops = 0
    /\ callbacks = [s \in OpIds |-> 0]
    /\ mid_swaps = [s \in OpIds |-> 0]
    /\ last_start = NoStart

(***************************************************************************)
(* PhotoFrame: the slideshow controller                                    *)
(* show_photo calls find_portrait_pair, whose unlocked reads interleave    *)
(* with the scan thread, so show_photo is a sequence of steps.  What it    *)
(* hands to PhotoDisplay is recorded in shown_log.                         *)
(***************************************************************************)
\* number of displays that are followed
MaxDisplays == 3

\* if self._error_count > 5
ErrorLimit == 5

\* the photo list of the slideshow: A, B, C
FrameFiles == <<1, 2, 3>>

\* the files on disk: A landscape and the others portrait; or every file
\* deleted since the directory was listed; or every file undecodable
FrameFixtures ==
    {[portrait |-> Paths \ {1}, missing |-> {}, unreadable |-> {}],
     [portrait |-> {}, missing |-> Paths, unreadable |-> {}],
     [portrait |-> {}, missing |-> {}, unreadable |-> Paths]}

FrameIdle == frame_handler = "none"

\* the record of what was displayed: the last MaxDisplays displays
Logged(log, entry) ==
    IF Len(log) < MaxDisplays THEN Append(log, entry) ELSE Append(Tail(log), entry)

\* show_photo has returned to the handler that called it: __init__,
\* show_next_photo and show_previous_photo start the timer, the resize
\* handler does not; timer_now is what show_photo left of the timer
ReturnFromShowPhoto(mode, p1, p2, timer_now, empty_now) ==
    /\ shown_log' = Logged(shown_log, [handler |-> frame_handler, mode |-> mode,
                                       p1 |-> p1, p2 |-> p2])
    /\ timer_active' = IF frame_handler = "resize" THEN timer_now ELSE TRUE
    /\ empty_state' = empty_now
    /\ frame_handler' = "none"
    /\ frame_pc' = "idle"
    /\ skip_transition' = FALSE

\* the timer fires, or Right / Space is pressed: show_next_photo
show_next_photo ==
    /\ FrameIdle
    /\ current_index' = next_index(photo_files, current_index)
    /\ frame_handler' = "show_next_photo"
    /\ frame_pc' = "show_photo"
    /\ skip_transition' = FALSE
    /\ UNCHANGED <<photo_files, indexVars, call, fpp_result, portrait_on_disk, last_op>>
    /\ UNCHANGED <<error_count, timer_active, empty_state, shown_log,
                   missing_on_disk, unreadable_on_disk>>
    /\ UNCHANGED <<prepVars, transVars>>

\* show_next_photo while fewer than MaxDisplays displays were followed
ShowNextPhoto == Len(shown_log) < MaxDisplays /\ show_next_photo

\* Left is pressed: show_previous_photo
show_previous_photo ==
    /\ FrameIdle
    /\ current_index' = previous_index(photo_files, current_index)
    /\ frame_handler' = "show_previous_photo"
    /\ frame_pc' = "show_photo"
    /\ skip_transition' = FALSE
    /\ UNCHANGED <<photo_files, indexVars, call, fpp_result, portrait_on_disk, last_op>>
    /\ UNCHANGED <<error_count, timer_active, empty_state, shown_log,
                   missing_on_disk, unreadable_on_disk>>
    /\ UNCHANGED <<prepVars, transVars>>

\* show_previous_photo while fewer than MaxDisplays displays were followed
ShowPreviousPhoto == Len(shown_log) < MaxDisplays /\ show_previous_photo

\* the single-shot timer of resizeEvent fires: show_photo(skip_transition=True)
ResizeShowPhoto ==
    /\ FrameIdle
    /\ Len(shown_log) < MaxDisplays
    /\ Len(photo_files) > 0
    /\ frame_handler' = "resize"
    /\ frame_pc' = "show_photo"
    /\ skip_transition' = TRUE
    /\ UNCHANGED seqVars
    /\ UNCHANGED <<error_count, timer_active, empty_state, shown_log,
                   missing_on_disk, unreadable_on_disk>>
    /\ UNCHANGED <<prepVars, transVars>>

\* show_photo up to the find_portrait_pair call: the empty list, the missing
\* file (skip forward, count, retry or give up), else the call
ShowPhotoBegin ==
    /\ frame_pc = "show_photo"
    /\ LET current_photo == get_current_photo_path(photo_files, current_index) IN
       IF current_photo = NoPath
       THEN /\ ReturnFromShowPhoto("empty", NoPath, NoPath, FALSE, TRUE)
            /\ UNCHANGED <<current_index, call, error_count>>
       ELSE IF current_photo \in missing_on_disk
       THEN /\ current_index' = next_index(photo_files, current_index)
            /\ error_count' = error_count + 1
            /\ IF error_count + 1 > ErrorLimit
               THEN ReturnFromShowPhoto("empty", NoPath, NoPath, FALSE, TRUE)
               ELSE /\ skip_transition' = TRUE
                    /\ UNCHANGED <<frame_handler, frame_pc, timer_active, empty_state,
                                   shown_log>>
            /\ UNCHANGED call
       ELSE /\ call' = [op |-> "find_portrait_pair", caller |-> "show_photo",
                        cur |-> current_photo, la |-> DefaultLookahead,
                        base |-> -1, i |-> 0, pc |-> "r1", idx0 |-> current_index,
                        answered |-> NoAnswer]
            /\ frame_pc' = "fpp"
            /\ UNCHANGED <<current_index, error_count, frame_handler, skip_transition,
                           timer_active, empty_state, shown_log>>
    /\ UNCHANGED <<photo_files, indexVars, fpp_result, portrait_on_disk, last_op>>
    /\ UNCHANGED <<missing_on_disk, unreadable_on_disk>>
    /\ UNCHANGED <<prepVars, transVars>>

\* show_photo from the return of find_portrait_pair on: the error count is
\* reset, the photo or the pair is prepared and displayed, and after a pair
\* the sequence advances once more; a prepare_* that raises (load_photo on an
\* undecodable file) goes to the except branch
ShowPhotoDisplay ==
    /\ frame_pc = "fpp"
    /\ call.pc = "returned"
    /\ call' = NoCall
    /\ LET current_photo == call.cur
           pair == fpp_result.should_pair /\ fpp_result.partner # NoPath
           prepared == IF pair THEN {current_photo, fpp_result.partner}
                       ELSE {current_photo}
       IN  IF prepared \cap unreadable_on_disk # {}
           THEN /\ current_index' = next_index(photo_files, current_index)
                /\ IF 0 + 1 > ErrorLimit
                   THEN /\ error_count' = 0
                        /\ ReturnFromShowPhoto("empty", NoPath, NoPath, FALSE, TRUE)
                   ELSE /\ error_count' = 0 + 1
                        /\ frame_pc' = "show_photo"
                        /\ skip_transition' = TRUE
                        /\ UNCHANGED <<frame_handler, timer_active, empty_state,
                                       shown_log>>
           ELSE /\ error_count' = 0
                /\ current_index' = IF pair THEN next_index(photo_files, current_index)
                                    ELSE current_index
                /\ ReturnFromShowPhoto(IF pair THEN "pair" ELSE "single", current_photo,
                                       IF pair THEN fpp_result.partner ELSE NoPath,
                                       timer_active, empty_state)
    /\ UNCHANGED <<photo_files, indexVars, fpp_result, portrait_on_disk, last_op>>
    /\ UNCHANGED <<missing_on_disk, unreadable_on_disk>>
    /\ UNCHANGED <<prepVars, transVars>>

\* no controller is running
InitFrameQuiet ==
    /\ frame_handler = "none"
    /\ frame_pc = "idle"
    /\ skip_transition = FALSE
    /\ error_count = 0
    /\ timer_active = FALSE
    /\ empty_state = FALSE
    /\ shown_log = <<>>
    /\ missing_on_disk = {}
    /\ unreadable_on_disk = {}

InitPrepVars ==
    /\ pixmap_cache = <<>>
    /\ req_pos = 0
    /\ tracked = [k \in AllKeys |-> NoTrack]
    /\ last_prep = NoPrep
    /\ back_steps = 0
    /\ blurred = NoBlur
    /\ pair_geometry = NoGeometry

\* the sequence manager is not exercised while the cache is observed
InitSeqQuiet ==
    /\ photo_files = <<>>
    /\ current_index = 0
    /\ portrait_photos = {}
    /\ portrait_cache = [p \in Paths |-> "absent"]
    /\ portrait_scan_complete = FALSE
    /\ portrait_scan_lock = 0
    /\ scan = [t \in ScanIds |-> ScanIdle]
    /\ call = NoCall
    /\ fpp_result = NoResult
    /\ portrait_on_disk = {}
    /\ last_op = "init"

InitCache == InitSeqQuiet /\ InitPrepVars /\ InitTransVars /\ InitFrameQuiet

NextCache ==
    \/ \E d \in {-1, 0, 1}, sz \in ScreenSizes, b \in Blurs : PrepareSinglePhoto(d, sz, b)
    \/ \E d \in {-1, 0, 1}, sz \in ScreenSizes, b \in Blurs : PreparePhotoPair(d, sz, b)
    \/ ClearCache

SpecCache == InitCache /\ [][NextCache]_vars

\* the geometry of a pair on every photo size and screen of the bounded range
InitPair == InitSeqQuiet /\ InitPrepVars /\ InitTransVars /\ InitFrameQuiet

NextPair ==
    \E image1 \in PairImageSizes, image2 \in PairImageSizes, screen_size \in PairScreens,
       blur \in BOOLEAN : PreparePairGeometry(image1, image2, screen_size, blur)

SpecPair == InitPair /\ [][NextPair]_vars

\* the blurred background on every image and screen size of the bounded range
InitBlur == InitSeqQuiet /\ InitPrepVars /\ InitTransVars /\ InitFrameQuiet

NextBlur == \E image \in Sizes, screen_size \in Sizes : CreateBlurredBackground(image, screen_size)

SpecBlur == InitBlur /\ [][NextBlur]_vars

(***************************************************************************)
(* The display under arbitrary display operations and animation frames     *)
(***************************************************************************)
\* the details of a photo displayed before the operations that are followed
EarlierDetails == MaxOps + 1

\* PhotoDisplay after k immediate displays of earlier photos, none of which
\* left an entry in the preparation cache
AfterEarlierDisplays(k) ==
    /\ tm_in_transition = FALSE
    /\ tm_photo_details = [current |-> NoDetails, next |-> NoDetails]
    /\ on_transition_finished_callback = "none"
    /\ fade_animation_group = FreshGroup
    /\ group_state = [s \in OpIds |-> "unused"]
    /\ group_time = [s \in OpIds |-> 0]
    /\ display_in_transition = FALSE
    /\ current_photo_details = IF k = 0 THEN NoDetails ELSE EarlierDetails
    /\ next_photo_details = NoDetails
    /\ cleanup_counter = k
    /\ cleaned = {}
    /\ overlay = IF k = 0 THEN NoDetails ELSE EarlierDetails
    /\ opacity = ResetOpacity
    /\ pixmaps = [current |-> IF k = 0 THEN NoDetails ELSE EarlierDetails,
                  next |-> NoDetails]
    /\ ops = 0
    /\ callbacks = [s \in OpIds |-> 0]
    /\ mid_swaps = [s \in OpIds |-> 0]
    /\ last_start = NoStart

\* display operations and preparations around the cleanup threshold
InitCleanup ==
    /\ InitSeqQuiet /\ InitPrepVars /\ InitFrameQuiet
    /\ \E k \in 0..(CleanupThreshold - 1) : AfterEarlierDisplays(k)

NextCleanup ==
    \/ \E d \in Durations : StartPhotoTransition(d)
    \/ DisplayPhotoImmediately
    \/ \E sz \in ScreenSizes, b \in Blurs : PrepareSinglePhoto(1, sz, b)

SpecCleanup == InitCleanup /\ [][NextCleanup]_vars

InitTrans == InitSeqQuiet /\ InitPrepVars /\ InitTransVars /\ InitFrameQuiet

NextTrans ==
    \/ \E duration \in Durations : StartPhotoTransition(duration)
    \/ DisplayPhotoImmediately
    \/ \E s \in OpIds : AnimationFrame(s)
    \/ \E s \in OpIds : AnimationEnd(s)

SpecTrans == InitTrans /\ [][NextTrans]_vars

(***************************************************************************)
(* The sequence manager under arbitrary calls of its operations            *)
(***************************************************************************)
InitSeq ==
    /\ photo_files \in FileLists
    /\ current_index = 0
    /\ portrait_photos = {}
    /\ portrait_cache = [p \in Paths |-> "absent"]
    /\ portrait_scan_complete = FALSE
    /\ portrait_scan_lock = 0
    /\ scan = [t \in ScanIds |->
                 IF t = 1 /\ Len(photo_files) > 0
                 THEN [ScanIdle EXCEPT !.pc = "acquire"] ELSE ScanIdle]
    /\ call = NoCall
    /\ fpp_result = NoResult
    /\ portrait_on_disk \in DiskFixtures
    /\ last_op = "init"
    /\ InitPrepVars
    /\ InitTransVars
    /\ InitFrameQuiet

NextSeq ==
    \/ NextPhoto
    \/ PreviousPhoto
    \/ \E f \in FileLists : RescanDirectory(f)
    \/ \E la \in Lookaheads : FindPortraitPair(get_current_photo_path(photo_files, current_index), la)
    \/ is_portrait_photo
    \/ background_portrait_scan

SpecSeq == InitSeq /\ [][NextSeq]_vars

(***************************************************************************)
(* The controller over the list A, B, C, with the scan thread running      *)
(***************************************************************************)
\* PhotoFrame.__init__ has built the PhotoFileSet, which started the scan,
\* and is about to call show_photo
InitFrame ==
    /\ photo_files = FrameFiles
    /\ current_index = 0
    /\ portrait_photos = {}
    /\ portrait_cache = [p \in Paths |-> "absent"]
    /\ portrait_scan_complete = FALSE
    /\ portrait_scan_lock = 0
    /\ scan = [t \in ScanIds |-> IF t = 1 THEN [ScanIdle EXCEPT !.pc = "acquire"]
                                  ELSE ScanIdle]
    /\ call = NoCall
    /\ fpp_result = NoResult
    /\ last_op = "init"
    /\ \E f \in FrameFixtures :
          /\ portrait_on_disk = f.portrait
          /\ missing_on_disk = f.missing
          /\ unreadable_on_disk = f.unreadable
    /\ frame_handler = "init"
    /\ frame_pc = "show_photo"
    /\ skip_transition = FALSE
    /\ error_count = 0
    /\ timer_active = FALSE
    /\ empty_state = FALSE
    /\ shown_log = <<>>
    /\ InitPrepVars
    /\ InitTransVars

NextFrame ==
    \/ ShowNextPhoto
    \/ ShowPreviousPhoto
    \/ ResizeShowPhoto
    \/ ShowPhotoBegin
    \/ ShowPhotoDisplay
    \/ is_portrait_photo
    \/ background_portrait_scan

SpecFrame == InitFrame /\ [][NextFrame]_vars

(***************************************************************************)
(* Claims about the sequence manager                                       *)
(***************************************************************************)
\* the last completed main-flow operation was a find_portrait_pair call
FppReturned == MainIdle /\ last_op = "find_portrait_pair"

\* offset (1 .. min(lookahead, len-1)) of the first portrait photo ahead of
\* position idx, wrapping; 0 when there is none in the window
FirstPortraitOffset(files, idx, la) ==
    LET n == Len(files)
        hits == {i \in 1..Min(la, n - 1) : At(files, (idx + i) % n) \in portrait_on_disk}
    IN  IF hits = {} THEN 0 ELSE CHOOSE i \in hits : \A j \in hits : i <= j

\* C1: on a non-empty list next_photo then previous_photo, and previous_photo
\* then next_photo, restore current_index; previous_photo at index 0 yields
\* len-1 and next_photo at index len-1 yields 0.
C1_NextPreviousRoundTrip ==
    [][/\ (NextPhoto /\ Len(photo_files) > 0) =>
            /\ previous_index(photo_files', current_index') = current_index
            /\ (current_index = Len(photo_files) - 1 => current_index' = 0)
       /\ (PreviousPhoto /\ Len(photo_files) > 0) =>
            /\ next_index(photo_files', current_index') = current_index
            /\ (current_index = 0 => current_index' = Len(photo_files) - 1)]_vars

\* previous_photo has wrapped from index 0 to the end of a list of 2 or more
C1_Witness ==
    /\ last_op = "previous_photo"
    /\ Len(photo_files) >= 2
    /\ current_index = Len(photo_files) - 1

\* C2: whenever photo_files is non-empty 0 <= current_index < len(photo_files);
\* whenever it is empty get_current_photo_path is None and next_photo and
\* previous_photo leave the index alone.
C2_IndexValid ==
    /\ Len(photo_files) > 0 =>
          /\ 0 <= current_index
          /\ current_index < Len(photo_files)
    /\ Len(photo_files) = 0 =>
          /\ get_current_photo_path(photo_files, current_index) = NoPath
          /\ next_index(photo_files, current_index) = current_index
          /\ previous_index(photo_files, current_index) = current_index

\* a list that was non-empty has been rescanned to empty and next_photo was called
C2_Witness ==
    /\ last_op = "next_photo"
    /\ Len(photo_files) = 0
    /\ scan[1].pc # "unstarted"

\* C3: find_portrait_pair returns (False, None) and leaves current_index
\* unchanged whenever the queried photo is not portrait.
C3_NoPartnerForLandscape ==
    (FppReturned /\ fpp_result.cur \notin portrait_on_disk) =>
        /\ ~fpp_result.should_pair
        /\ fpp_result.partner = NoPath
        /\ current_index = fpp_result.idx0

\* a landscape photo was queried with a portrait photo right behind it
C3_Witness ==
    /\ FppReturned
    /\ fpp_result.cur \notin portrait_on_disk
    /\ fpp_result.la >= 1
    /\ FirstPortraitOffset(photo_files, fpp_result.idx0, fpp_result.la) = 1

\* C4: when the queried photo is portrait and the first other portrait photo
\* lies i positions ahead, 1 <= i <= min(lookahead, len-1), find_portrait_pair
\* returns (True, that path); current_index becomes (original + i - 1) mod len
\* if i > 1 and is unchanged if i = 1.
C4_PairFound ==
    (FppReturned /\ fpp_result.cur \in portrait_on_disk) =>
        LET n == Len(photo_files)
            i == FirstPortraitOffset(photo_files, fpp_result.idx0, fpp_result.la)
        IN  i >= 1 =>
              /\ fpp_result.should_pair
              /\ fpp_result.partner = At(photo_files, (fpp_result.idx0 + i) % n)
              /\ current_index = IF i > 1 THEN (fpp_result.idx0 + i - 1) % n
                                 ELSE fpp_result.idx0

(***************************************************************************)
(* Claims about the preparation cache                                      *)
(***************************************************************************)
\* the last call was prepare_single_photo for a key requested before, with no
\* clear_cache and no eviction of that key in between
SecondRequest == last_prep.kind = "single" /\ last_prep.repeat

\* the second request was a cache hit: one load_photo in all, the same bitmap
SecondRequestHit ==
    /\ last_prep.loads = 1
    /\ last_prep.hits[1]
    /\ ~last_prep.raised
    /\ last_prep.pixmaps[1] = last_prep.first

FifoStep(old, new, prep) ==
    \/ prep.kind = "clear" /\ new = <<>>
    \/ /\ prep.kind # "clear"
       /\ \E m \in 0..Len(old) :
             /\ Len(new) >= Len(old) - m
             /\ SubSeq(new, 1, Len(old) - m) = SubSeq(old, m + 1, Len(old))
             /\ \A k \in (Len(old) - m + 1)..Len(new) :
                   new[k].key \in {prep.keys[j] : j \in 1..Len(prep.keys)}
             /\ m > 0 => Len(new) = CacheSizeLimit
       /\ \A a, b \in 1..Len(new) : a # b => new[a].key # new[b].key
       /\ (\A k \in 1..Len(prep.hits) : prep.hits[k]) => new = old
       /\ \A k \in 1..Len(prep.keys) :
             prep.pixmaps[k] # EmptyPixmap => prep.keys[k] \in CachedKeys(new)

\* C7: the cache never holds more than 10 entries; entries are evicted oldest
\* inserted first and only when an insertion exceeds 10; a hit does not move
\* an entry; every entry just inserted or hit is retrievable.
C7_BoundedFifo ==
    /\ [](Len(pixmap_cache) <= CacheSizeLimit)
    /\ [][FifoStep(pixmap_cache, pixmap_cache', last_prep')]_vars

\* an insertion into a full cache has evicted the first-inserted entry, after
\* an older entry had been hit by going back
C7_Witness ==
    /\ Len(pixmap_cache) = CacheSizeLimit
    /\ last_prep.evicted # {}
    /\ back_steps > 0

(***************************************************************************)
(* Claims about transitions                                                *)
(***************************************************************************)
\* a start_transition call with duration <= 0 has just returned
ZeroDurationStartReturned == last_start.op # 0 /\ last_start.duration <= 0

\* C8: a transition started with duration <= 0 has invoked the completion
\* callback before start_transition returns, has created and started no
\* animation, and leaves the engine idle: in_transition is false on return.
C8_ZeroDurationStaysIdle ==
    ZeroDurationStartReturned =>
        /\ last_start.callback_ran
        /\ ~last_start.animation_started
        /\ \A s \in OpIds : group_state[s] # "running"
        /\ ~tm_in_transition

\* a display operation that is a start_photo_transition call
IsStartStep == ops' # ops /\ last_start'.op # 0

\* C9: when a transition is started while another is running, the running
\* animation is stopped by the start; a stopped session stays stopped and its
\* completion callback is never invoked; no session's callback is invoked
\* more than once and never two sessions run at the same time.
C9_SupersededNeverFinalizes ==
    /\ [](\A s \in OpIds : callbacks[s] <= 1)
    /\ [](\A s \in OpIds : group_state[s] = "stopped" => callbacks[s] = 0)
    /\ [](Cardinality({s \in OpIds : group_state[s] = "running"}) <= 1)
    /\ [][\A s \in OpIds :
            /\ (group_state[s] = "running" /\ IsStartStep)
                   => (group_state'[s] = "stopped" /\ callbacks'[s] = 0)
            /\ group_state[s] = "stopped" => group_state'[s] = "stopped"]_vars

\* a first transition was superseded while running and the second one ran to
\* completion and was finalised once
C9_Witness ==
    \E s1, s2 \in OpIds :
        /\ s1 < s2
        /\ group_state[s1] = "stopped" /\ callbacks[s1] = 0
        /\ group_state[s2] = "finished" /\ callbacks[s2] = 1
        /\ current_photo_details = s2

\* C10: during one transition the mid-point overlay swap happens exactly
\* once: never more than once, and once for every transition that has run to
\* completion.
C10_MidpointOnce ==
    \A s \in OpIds :
        /\ mid_swaps[s] <= 1
        /\ group_state[s] = "finished" => mid_swaps[s] = 1

(***************************************************************************)
(* Claims about the controller                                             *)
(***************************************************************************)
\* every file of A, B, C exists and decodes
FilesIntact == missing_on_disk = {} /\ unreadable_on_disk = {}

\* the k-th display was made by a timer tick (show_next_photo)
ByTick(k) == shown_log[k].handler = "show_next_photo"

\* C5: on A (landscape), B, C (portrait), starting at A, the first display is
\* A alone, the tick after it displays the pair (B, C) and the tick after that
\* displays A again; and whenever a pair has been displayed the sequence is
\* positioned on the partner, so that the next tick lands past it.
C5_EndToEndPairing ==
    FilesIntact =>
        /\ Len(shown_log) >= 1 =>
              shown_log[1] = [handler |-> "init", mode |-> "single",
                              p1 |-> FrameFiles[1], p2 |-> NoPath]
        /\ (Len(shown_log) >= 2 /\ ByTick(2)) =>
              /\ shown_log[2].mode = "pair"
              /\ shown_log[2].p1 = FrameFiles[2]
              /\ shown_log[2].p2 = FrameFiles[3]
        /\ (Len(shown_log) >= 3 /\ ByTick(2) /\ ByTick(3)) =>
              /\ shown_log[3].mode = "single"
              /\ shown_log[3].p1 = FrameFiles[1]
        /\ (FrameIdle /\ Len(shown_log) >= 1
                      /\ shown_log[Len(shown_log)].mode = "pair") =>
              get_current_photo_path(photo_files, current_index)
                  = shown_log[Len(shown_log)].p2

\* session s has run to its end and no display operation came after it
FinishedLast(s) == group_state[s] = "finished" /\ ops = s

\* C11: when a running transition has reached progress 1.0 the completion
\* callback has been invoked exactly once and the engine is idle again: its
\* in_transition flag is reset.
C11_FinishedIsIdle ==
    \A s \in OpIds :
        FinishedLast(s) => (callbacks[s] = 1 /\ ~tm_in_transition)

\* the group the engine holds is running
EngineRunning ==
    /\ fade_animation_group # FreshGroup
    /\ group_state[fade_animation_group] = "running"

\* C12: cancel_transition on a running engine stops the animation and leaves
\* the engine idle without invoking the completion callback, and a stopped
\* session's callback is not invoked later either; on an idle engine
\* (in_transition false) cancel_transition changes no state; cancelling twice
\* is cancelling once.
C12_CancelIdempotent ==
    LET c == cancel_transition(TransState) IN
    /\ EngineRunning =>
          /\ c.gstate[fade_animation_group] = "stopped"
          /\ ~c.tm_in
          /\ c.callbacks = callbacks
    /\ \A s \in OpIds : group_state[s] = "stopped" => callbacks[s] = 0
    /\ ~tm_in_transition => c = TransState
    /\ cancel_transition(c) = c

\* a running transition was cancelled by the start of the next one, which is
\* running now
C12_Witness ==
    \E s \in OpIds :
        /\ s + 1 \in OpIds
        /\ group_state[s] = "stopped" /\ callbacks[s] = 0
        /\ fade_animation_group = s + 1
        /\ EngineRunning
        /\ group_time[s + 1] > 0

(***************************************************************************)
(* Claims about portrait classification                                    *)
(***************************************************************************)
\* a main-flow is_portrait_photo call has just returned
IppAnswered == call.answered.path # NoPath

\* C13: every main-flow call is_portrait_photo(p) returns true iff p is
\* portrait on disk, under every interleaving of its reads with the writes of
\* the scan threads.
C13_ClassificationCorrect ==
    IppAnswered => (call.answered.portrait <=> is_portrait(call.answered.path))

\* the main flow stands at `with self.portrait_scan_lock` of is_portrait_photo,
\* for a path it found neither in the set nor decided by the flag and cache
MainWantsLock == call.op = "find_portrait_pair" /\ call.pc = "lock"

\* C14: the main flow never waits for a scan: whenever a main-flow
\* is_portrait_photo call needs the lock for its on-demand check it can take
\* it at once, also while a scan is in progress.
C14_MainNeverWaits == MainWantsLock => portrait_scan_lock = 0

(***************************************************************************)
(* The scan threads under fair scheduling, with rescans and main-flow      *)
(* queries; file A cannot be decoded, the others are portrait              *)
(***************************************************************************)
InitScan ==
    /\ photo_files = FrameFiles
    /\ current_index = 0
    /\ portrait_photos = {}
    /\ portrait_cache = [p \in Paths |-> "absent"]
    /\ portrait_scan_complete = FALSE
    /\ portrait_scan_lock = 0
    /\ scan = [t \in ScanIds |-> IF t = 1 THEN [ScanIdle EXCEPT !.pc = "acquire"]
                                  ELSE ScanIdle]
    /\ call = NoCall
    /\ fpp_result = NoResult
    /\ last_op = "init"
    /\ portrait_on_disk = Paths \ {1}
    /\ missing_on_disk = {}
    /\ unreadable_on_disk = {1}
    /\ frame_handler = "none"
    /\ frame_pc = "idle"
    /\ skip_transition = FALSE
    /\ error_count = 0
    /\ timer_active = FALSE
    /\ empty_state = FALSE
    /\ shown_log = <<>>
    /\ InitPrepVars
    /\ InitTransVars

NextScan ==
    \/ \E f \in FileLists : RescanDirectory(f)
    \/ FindPortraitPair(get_current_photo_path(photo_files, current_index),
                        DefaultLookahead)
    \/ is_portrait_photo
    \/ background_portrait_scan

\* a started thread is scheduled again and again
SpecScanFair ==
    InitScan /\ [][NextScan]_vars /\ \A t \in ScanIds : WF_vars(ScanThread(t))

ScanStarted(t) == scan[t].pc \notin {"unstarted", "done"}

\* no scan thread is running
NoScanRunning == \A t \in ScanIds : ~ScanStarted(t)

\* every file of the list is classified as it is on disk
AllClassified ==
    \A p \in Range(photo_files) :
        /\ portrait_cache[p] = BoolStr(is_portrait(p))
        /\ is_portrait(p) => p \in portrait_photos

\* C15: every started scan eventually finishes, having set the completion
\* flag; when the last running scan finishes every file of the list is
\* classified, a file that cannot be decoded as not portrait, and the files
\* behind it as they are on disk.
C15_ScanCompletes ==
    /\ \A t \in ScanIds : ScanStarted(t) ~> (scan[t].pc = "done")
    /\ [][\A t \in ScanIds :
            (scan[t].pc # "done" /\ scan'[t].pc = "done") =>
                /\ portrait_scan_complete'
                /\ NoScanRunning' => AllClassified']_vars

\* a scan has finished on the list A, B, C: A, which cannot be decoded, is
\* classified as not portrait and B and C behind it as portrait
C15_Witness ==
    /\ scan[1].pc = "done"
    /\ photo_files = FrameFiles
    /\ portrait_scan_complete
    /\ portrait_cache[1] = "no"
    /\ portrait_photos = {2, 3}

(***************************************************************************)
(* Claims about the controller's error handling                            *)
(***************************************************************************)

\* a step of show_photo's missing-file branch: the current path is not on
\* disk, the sequence advances and the failure is counted
MissingFailure ==
    /\ frame_pc = "show_photo"
    /\ get_current_photo_path(photo_files, current_index) \in missing_on_disk
    /\ error_count' = error_count + 1
    /\ current_index' = next_index(photo_files, current_index)

\* show_photo calls itself again / show_photo gives up and returns
Retried == frame_pc' = "show_photo" /\ skip_transition'
GaveUp == frame_pc' = "idle" /\ empty_state' /\ Len(shown_log') = Len(shown_log) + 1

\* show_photo has displayed a photo or a pair
Displayed ==
    /\ Len(shown_log') = Len(shown_log) + 1
    /\ shown_log'[Len(shown_log')].mode \in {"single", "pair"}

\* C16: a missing current file advances the sequence and is retried while
\* fewer than 5 consecutive failures have happened; the failure that brings
\* the count to 5 ends the retries and surfaces the empty state; a
\* successful display leaves the count at 0.
C16_MissingRetryBound ==
    [][/\ MissingFailure =>
             IF error_count' >= ErrorLimit THEN GaveUp ELSE Retried
       /\ Displayed => error_count' = 0]_vars

\* the controller under a fair scheduler: the main thread keeps executing the
\* show_photo it is in, and every scan thread keeps being scheduled
SpecFrameFair ==
    /\ InitFrame
    /\ [][NextFrame]_vars
    /\ WF_vars(ShowPhotoBegin)
    /\ WF_vars(ShowPhotoDisplay)
    /\ WF_vars(is_portrait_photo)
    /\ \A t \in ScanIds : WF_vars(ScanThread(t))

\* a handler is inside show_photo
InShowPhoto == frame_handler # "none"

\* a step of show_photo's except branch that retries: prepare_* raised on
\* an undecodable file
DecodeFailure ==
    /\ frame_pc = "fpp"
    /\ frame_pc' = "show_photo"
    /\ current_index' = next_index(photo_files, current_index)

\* C17: every show_photo call returns to its handler, whatever the files
\* are, and each decode failure that is retried adds one to the count of
\* consecutive failures, so that the count reaches the limit.
C17_ShowPhotoTerminates ==
    /\ InShowPhoto ~> ~InShowPhoto
    /\ [][DecodeFailure => error_count' = error_count + 1]_vars

(***************************************************************************)
(* Claims about failures inside the preparation manager                    *)
(***************************************************************************)

\* slot k of the last prepare_* call is for a file whose decoding or
\* conversion fails
FailedSlot(k) == FileStatus(last_prep.keys[k][1]) # "ok"

\* C18: a prepare_single_photo / prepare_photo_pair call in which decoding or
\* conversion of a photo fails returns normally, with an empty bitmap for
\* that slot, and the cache holds no entry for the failed key.
C18_FailureContained ==
    \A k \in DOMAIN last_prep.keys :
        FailedSlot(k) =>
            /\ ~last_prep.raised
            /\ last_prep.pixmaps[k] = EmptyPixmap
            /\ last_prep.keys[k] \notin CachedKeys(pixmap_cache)

(***************************************************************************)
(* Claims about the blurred background                                     *)
(***************************************************************************)

BlurCalled == blurred # NoBlur

\* the image fitted into the screen leaves a bar in one dimension or the other
Letterboxed ==
    \/ blurred.out.scaled[1] < blurred.screen[1]
    \/ blurred.out.scaled[2] < blurred.screen[2]

C20_CompleteIsAuthoritative ==
    portrait_scan_complete =>
        \A p \in Range(photo_files) : is_portrait(p) => p \in portrait_photos

\* the empty/error state is on the screen and the controller is between
\* handlers
EmptySurfaced == FrameIdle /\ empty_state

\* C21: once the failure limit was reached and the empty/error state is
\* shown, the display timer is stopped and stays stopped, so that no
\* show_next_photo runs on its own, whichever handler hit the limit.
C21_EmptyStatePersistent == EmptySurfaced => ~timer_active

(***************************************************************************)
(* Claims about immediate displays, promotion and the cleanup counter      *)
(***************************************************************************)

\* the last display operation was a _display_photo_immediately: it starts no
\* session and runs no completion callback
ImmediateLast == ops \in OpIds /\ group_state[ops] = "unused" /\ callbacks[ops] = 0

AnimationRunning == \E s \in OpIds : group_state[s] = "running"

\* C22: from an immediate display until the next display operation the
\* displayed photo is current, the display is not in transition, no
\* animation runs, and the current layer has opacity 1 and the next layer 0.
C22_ImmediateIsSettled ==
    ImmediateLast =>
        /\ current_photo_details = ops
        /\ ~display_in_transition
        /\ ~AnimationRunning
        /\ opacity = ResetOpacity

\* the completion callback runs on behalf of session s in this step
CallbackStep(s) == callbacks'[s] = callbacks[s] + 1

\* the details that are next when the callback runs: those of the transition
\* being started in this step, or those a running transition leads to
PendingNext == IF ops' # ops THEN ops' ELSE next_photo_details

\* C23: when the completion callback of a transition runs, the next photo
\* becomes the current one, next_photo_details is None, the display is not
\* in transition, the bitmap references of the photo that was current are
\* None and those of the promoted photo are kept.
C23_PromotionOnCompletion ==
    [][\A s \in OpIds :
          (CallbackStep(s) /\ PendingNext # NoDetails) =>
              /\ current_photo_details' = PendingNext
              /\ next_photo_details' = NoDetails
              /\ ~display_in_transition'
              /\ current_photo_details # NoDetails => current_photo_details \in cleaned'
              /\ PendingNext \notin cleaned']_vars

\* a cross-dissolve from one photo to another has run to its end
C23_Witness ==
    \E s \in OpIds :
        /\ s > 1
        /\ group_state[s] = "finished" /\ callbacks[s] = 1
        /\ current_photo_details = s /\ next_photo_details = NoDetails
        /\ s - 1 \in cleaned /\ s \notin cleaned

\* the display is in a transition toward a next photo
TransitionInProgress == display_in_transition /\ next_photo_details # NoDetails

\* C24: a start_photo_transition issued while a transition toward another
\* photo is in progress sets the bitmap references of that superseded next
\* photo to None, and a new cross-dissolve starts with the bitmap references
\* of the current photo as they were.
C24_SupersededNextReleased ==
    [][(IsStartStep /\ TransitionInProgress) =>
          /\ next_photo_details \in cleaned'
          /\ next_photo_details \notin cleaned
          /\ last_start'.animation_started =>
                /\ current_photo_details' = current_photo_details
                /\ (current_photo_details \in cleaned') = (current_photo_details \in cleaned)]_vars

\* a second cross-dissolve replaced a running one: the first target is
\* released, the current photo is not
C24_Witness ==
    \E s \in OpIds :
        /\ s > 1 /\ s + 1 \in OpIds
        /\ group_state[s] = "stopped" /\ s \in cleaned
        /\ group_state[s + 1] = "running" /\ next_photo_details = s + 1
        /\ current_photo_details = s - 1 /\ s - 1 \notin cleaned

RunningSessions == {s \in OpIds : group_state[s] = "running"}

\* C25: at most one animation group runs at any moment; a step that starts
\* a session leaves no other session running, cancel_transition leaves none
\* running, and a transition started with duration <= 0 leaves none running
\* either; this includes starts that follow an immediate display issued
\* while a transition was running.
C25_OneSessionAtATime ==
    /\ [](Cardinality(RunningSessions) <= 1)
    /\ [](cancel_transition(TransState).gstate = [s \in OpIds |->
             IF s \in RunningSessions THEN "stopped" ELSE group_state[s]])
    /\ [][IsStartStep => RunningSessions' \subseteq {ops'}]_vars

\* a transition was running when an immediate display was issued, and the
\* transition started after that display stopped it
C25_Witness ==
    \E s \in OpIds :
        /\ s + 2 \in OpIds
        /\ group_state[s] = "stopped"
        /\ group_state[s + 1] = "unused" /\ callbacks[s + 1] = 0
        /\ group_state[s + 2] = "running"

(***************************************************************************)
(* Claims about rescan_directory and find_portrait_pair                    *)
(***************************************************************************)

\* a rescan_directory call, by what it does: it runs on the idle main flow
\* and starts a scan thread unless the new list is empty
RescanStep ==
    /\ MainIdle
    /\ last_op' = "rescan_directory"
    /\ call' = NoCall
    /\ portrait_scan_lock' = portrait_scan_lock
    /\ IF Len(photo_files') = 0
       THEN scan' = scan
       ELSE \E t \in ScanIds : scan[t].pc = "unstarted" /\ scan'[t].pc = "acquire"

\* C26: after rescan_directory the current photo is the path that was
\* current before, when the new list still holds it; otherwise current_index
\* is 0.
C26_RescanKeepsCurrentPath ==
    [][RescanStep =>
          LET current_file == get_current_photo_path(photo_files, current_index) IN
          IF current_file # NoPath /\ current_file \in Range(photo_files')
          THEN get_current_photo_path(photo_files', current_index') = current_file
          ELSE current_index' = 0]_vars

\* the current photo was found again at the end of a list of three
C26_Witness ==
    /\ last_op = "rescan_directory"
    /\ Len(photo_files) = 3
    /\ current_index = 2

\* the portrait paths of the list, as they are on disk
PortraitsOf(files) == {p \in Range(files) : is_portrait(p)}

\* index and flag are those of a finished scan of the current list
IndexRebuilt ==
    /\ NoScanRunning
    /\ portrait_scan_complete
    /\ portrait_photos = PortraitsOf(photo_files)

\* C27: every rescan_directory starts a scan thread, for an empty list too,
\* and after a rescan a scan resets the completion flag and the portrait set
\* and rebuilds them for the new list, so that in the end both are those of
\* the current list.
C27_RescanRestartsScan ==
    /\ [][RescanStep =>
             \E t \in ScanIds : scan[t].pc = "unstarted" /\ scan'[t].pc = "acquire"]_vars
    /\ (last_op = "rescan_directory") ~> IndexRebuilt

\* a display operation: _display_photo_immediately or start_photo_transition
DisplayOperation == ops' = ops + 1

\* C28: every display operation adds one to the cleanup counter; the
\* operation that brings it to 20 calls clear_cache() and resets it to 0, and
\* no other operation clears the cache; between operations the counter is
\* in 0..19.
C28_CleanupEveryTwentieth ==
    /\ [](cleanup_counter \in 0..(CleanupThreshold - 1))
    /\ [][DisplayOperation =>
             IF cleanup_counter + 1 = CleanupThreshold
             THEN cleanup_counter' = 0 /\ pixmap_cache' = <<>>
             ELSE cleanup_counter' = cleanup_counter + 1 /\ pixmap_cache' = pixmap_cache]_vars

\* the twentieth operation has emptied a cache that held a prepared photo
C28_Witness ==
    /\ ops > 0
    /\ cleanup_counter = 0
    /\ last_prep.kind = "clear"
    /\ req_pos >= 2
    /\ pixmap_cache = <<>>

\* find_portrait_pair is examining the photo at an offset ahead of the
\* queried one
Examining == call.op = "find_portrait_pair" /\ call.i >= 1

\* C29: for a portrait photo find_portrait_pair returns (False, None) and
\* leaves current_index unchanged exactly when no other portrait photo lies
\* within min(lookahead, len-1) positions ahead, wrapping; the partner it
\* returns is never the queried photo; the offsets it examines only grow and
\* stay below the length of the list, so that no position is examined twice
\* and the queried position is never examined.
C29_NoPartnerExactly ==
    /\ []((FppReturned /\ fpp_result.cur \in portrait_on_disk) =>
            /\ (/\ ~fpp_result.should_pair
                /\ fpp_result.partner = NoPath
                /\ current_index = fpp_result.idx0)
               <=> FirstPortraitOffset(photo_files, fpp_result.idx0, fpp_result.la) = 0
            /\ fpp_result.partner # fpp_result.cur)
    /\ [](Examining =>
            /\ call.i <= Min(call.la, Len(photo_files) - 1)
            /\ QueriedPath(call) # call.cur)
    /\ [][(call.op = "find_portrait_pair" /\ call'.op = "find_portrait_pair") =>
             (call'.i = call.i \/ (call'.i = call.i + 1 /\ call'.pc = "r1"))]_vars

(***************************************************************************)
(* Claims about the geometry of a pair                                     *)
(***************************************************************************)

PairPrepared == pair_geometry # NoGeometry

\* C30: each photo of a pair is at most (screenW / 2) - 10 wide; the left
\* photo is at startX = (screenW - (w1 + 10 + w2)) / 2 and the right one at
\* startX + w1 + 10, so that the photos do not overlap, are exactly 10
\* apart and lie within the screen horizontally.  Positions are doubled.
C30_PairLayout ==
    PairPrepared =>
        LET g == pair_geometry
            w1 == g.pixmap1[1]
            w2 == g.pixmap2[1]
        IN  /\ 2 * w1 <= g.screen[1] - 20
            /\ 2 * w2 <= g.screen[1] - 20
            /\ g.image1_x2 = g.screen[1] - (w1 + 10 + w2)
            /\ g.image2_x2 = g.image1_x2 + 2 * (w1 + 10)
            /\ g.image2_x2 - (g.image1_x2 + 2 * w1) = 20
            /\ g.image1_x2 >= 0
            /\ g.image2_x2 + 2 * w2 <= 2 * g.screen[1]

(***************************************************************************)
(* The slideshow running without end over a static, intact file set        *)
(***************************************************************************)
\* PhotoFrame.__init__ over the list A, B, C, every file present and
\* decodable, with any of the files portrait
InitSlide ==
    /\ photo_files = FrameFiles
    /\ current_index = 0
    /\ portrait_photos = {}
    /\ portrait_cache = [p \in Paths |-> "absent"]
    /\ portrait_scan_complete = FALSE
    /\ portrait_scan_lock = 0
    /\ scan = [t \in ScanIds |-> IF t = 1 THEN [ScanIdle EXCEPT !.pc = "acquire"]
                                  ELSE ScanIdle]
    /\ call = NoCall
    /\ fpp_result = NoResult
    /\ last_op = "init"
    /\ portrait_on_disk \in SUBSET Paths
    /\ missing_on_disk = {}
    /\ unreadable_on_disk = {}
    /\ frame_handler = "init"
    /\ frame_pc = "show_photo"
    /\ skip_transition = FALSE
    /\ error_count = 0
    /\ timer_active = FALSE
    /\ empty_state = FALSE
    /\ shown_log = <<>>
    /\ InitPrepVars
    /\ InitTransVars

\* the only handler that runs is the timer's
NextTick ==
    \/ show_next_photo
    \/ ShowPhotoBegin
    \/ ShowPhotoDisplay
    \/ is_portrait_photo
    \/ background_portrait_scan

\* the timer keeps firing, the main thread keeps executing the handler it is
\* in, and every scan thread keeps being scheduled
SpecTickFair ==
    /\ InitSlide
    /\ [][NextTick]_vars
    /\ WF_vars(show_next_photo)
    /\ WF_vars(ShowPhotoBegin)
    /\ WF_vars(ShowPhotoDisplay)
    /\ WF_vars(is_portrait_photo)
    /\ \A t \in ScanIds : WF_vars(ScanThread(t))

\* the display that was made last shows p, alone or as a member of a pair
OnScreen(p) ==
    /\ FrameIdle
    /\ Len(shown_log) > 0
    /\ shown_log[Len(shown_log)].mode \in {"single", "pair"}
    /\ p \in {shown_log[Len(shown_log)].p1, shown_log[Len(shown_log)].p2}

\* C31: with a static, non-empty file set in which every file exists and
\* decodes, repeated timer ticks display every photo of the sequence
\* infinitely often, alone or as a member of a pair.
C31_EveryPhotoShown ==
    \A p \in Range(FrameFiles) : []<>OnScreen(p)

(***************************************************************************)
(* Backward navigation                                                     *)
(***************************************************************************)
\* both navigation handlers run
NextBack ==
    \/ show_next_photo
    \/ show_previous_photo
    \/ ShowPhotoBegin
    \/ ShowPhotoDisplay
    \/ is_portrait_photo
    \/ background_portrait_scan

\* Left keeps being pressed whenever the window is idle, the main thread
\* keeps executing the handler it is in, and every scan thread keeps being
\* scheduled; nothing is required of the timer
SpecBackFair ==
    /\ InitSlide
    /\ [][NextBack]_vars
    /\ SF_vars(show_previous_photo)
    /\ WF_vars(ShowPhotoBegin)
    /\ WF_vars(ShowPhotoDisplay)
    /\ WF_vars(is_portrait_photo)
    /\ \A t \in ScanIds : WF_vars(ScanThread(t))

\* the display that was made last is the pair (b, c)
PairOnScreen(b, c) ==
    /\ FrameIdle
    /\ Len(shown_log) > 0
    /\ shown_log[Len(shown_log)].mode = "pair"
    /\ shown_log[Len(shown_log)].p1 = b
    /\ shown_log[Len(shown_log)].p2 = c

\* C33: after a pair (b, c) has been displayed, with b not the first photo
\* of the sequence, show_previous_photo actions that are not interrupted by
\* a show_next_photo eventually make a display other than that pair, which
\* is the least that displaying a photo preceding b takes; the same pair is
\* not displayed again forever.
C33_BackwardPastPairs ==
    \A b \in Range(FrameFiles) \ {FrameFiles[1]}, c \in Range(FrameFiles) :
        [](PairOnScreen(b, c) =>
              <>(frame_handler = "show_next_photo"
                    \/ (FrameIdle /\ ~PairOnScreen(b, c))))

(***************************************************************************)
(* Re-display on resize                                                    *)
(***************************************************************************)
\* the show_photo(skip_transition=True) of the resize handler returns
ResizeReturns == frame_handler = "resize" /\ frame_handler' = "none"

\* two displays show the same photo or the same pair
SameDisplay(d, e) == d.mode = e.mode /\ d.p1 = e.p1 /\ d.p2 = e.p2

\* C38: show_photo(skip_transition=True) issued by the resize handler with
\* no next / previous action since the last display, over files that exist
\* and decode, displays the same photo or pair as is already shown and
\* leaves current_index where the previous display left it.
C38_RedisplayIdempotent ==
    [][(ResizeReturns /\ FilesIntact /\ Len(shown_log) > 0) =>
          /\ SameDisplay(shown_log'[Len(shown_log')], shown_log[Len(shown_log)])
          /\ current_index' = call.idx0]_vars

(***************************************************************************)
(* The portrait index once every scan worker has finished                  *)
(***************************************************************************)
\* the main flow is between calls and no scan worker is waiting or running
Quiescent == MainIdle /\ NoScanRunning

\* C35: after any number of rescan_directory calls and on-demand checks,
\* once every background scan worker has finished, portrait_photos is
\* exactly the set of portrait paths of the current photo_files and the
\* completion flag is set, however scans overlapped each other and the
\* rescans.
C35_EventualConsistency ==
    Quiescent =>
        /\ portrait_photos = PortraitsOf(photo_files)
        /\ portrait_scan_complete

(***************************************************************************)
(* What the screen shows when a transition has completed                   *)
(***************************************************************************)
\* the completion callback runs in this step and promotes the next photo
Promotion == \E s \in OpIds : CallbackStep(s) /\ PendingNext # NoDetails

\* C32: whenever a transition completes and next is promoted to current,
\* also for a transition started with duration <= 0, the bitmap on the
\* current layer is the bitmap of the newly committed current_photo_details,
\* never an empty or a stale one.
C32_CommittedBitmapShown ==
    [][Promotion => pixmaps'.current = current_photo_details']_vars

\* C34: after every transition that completes, for any duration and any
\* cadence of animation frames, the metadata overlay is that of the newly
\* current photo and not that of the superseded one: the mid-transition swap
\* has happened by the time the completion callback has run.
C34_OverlayFollowsPromotion ==
    [][Promotion => overlay' = current_photo_details']_vars

\* C36: between operations PhotoDisplay.in_transition is true exactly when
\* next_photo_details is not None, after any sequence of immediate displays,
\* transition starts of any duration, supersessions and completion
\* callbacks.
C36_InTransitionIffNext ==
    display_in_transition <=> next_photo_details # NoDetails

\* both sides have been true and are false again: after two earlier display
\* operations, the last of them a cross-dissolve that was superseded, a
\* cross-dissolve ran to completion
C36_Witness ==
    \E s \in OpIds :
        /\ s > 2
        /\ group_state[s] = "finished" /\ callbacks[s] = 1
        /\ group_state[s - 1] = "stopped"
        /\ current_photo_details = s
        /\ ~display_in_transition /\ next_photo_details = NoDetails

(***************************************************************************)
(* The display beside a preparation cache that holds entries               *)
(***************************************************************************)
\* number of photos that are prepared, and cached, around the display
\* operations
MaxPrepared == 2

\* show_photo prepares the details it is about to display
PrepareAhead ==
    /\ req_pos < MaxPrepared
    /\ \E sz \in ScreenSizes, b \in Blurs : PrepareSinglePhoto(1, sz, b)

NextOwn ==
    \/ NextTrans
    \/ PrepareAhead

SpecOwn == InitTrans /\ [][NextOwn]_vars

\* the entries of the preparation cache
CacheEntries(cache) == {cache[k] : k \in 1..Len(cache)}

\* C37: the details held in the current slot, and those held in the next
\* slot while a transition is in progress, always have their bitmap
\* references; cleanup sets to None only the bitmap references of a record
\* that is being replaced or superseded, and never alters an entry of the
\* preparation cache.
C37_SlotsOwnBitmaps ==
    /\ [](current_photo_details # NoDetails => current_photo_details \notin cleaned)
    /\ [](TransitionInProgress => next_photo_details \notin cleaned)
    /\ [][\A d \in cleaned' \ cleaned :
             /\ d \in {current_photo_details, next_photo_details}
             /\ d \notin {current_photo_details', next_photo_details'}]_vars
    /\ [][cleaned' # cleaned =>
             CacheEntries(pixmap_cache') = CacheEntries(pixmap_cache)]_vars

\* with entries in the cache, a record was replaced and cleaned, and a
\* transition from a current record to a next one is in progress
C37_Witness ==
    /\ Len(pixmap_cache) > 0
    /\ cleaned # {}
    /\ current_photo_details # NoDetails
    /\ TransitionInProgress

=============================================================================
